---------------------------- MODULE Spec2Model ----------------------------
(***************************************************************************)
(* Model of the FT-regression driver of the C3 toolbox                     *)
(* (examples/linelm2d/linelm2d.c): the parameterised function train        *)
(* (FTparam) with its restricted-rank updates, k-fold cross validation,    *)
(* grid search over hyper-parameters, rank adaptation, and the status      *)
(* contract of the optimizer the drivers call.                             *)
(*                                                                         *)
(* Numbers: parameters, labels and predictions are integers (exact         *)
(* arithmetic).  C arrays are functions over 0..n-1, as in the source.     *)
(* Each subsystem keeps its state in one record-valued variable whose      *)
(* fields carry the names of the C variables / struct members.             *)
(***************************************************************************)
EXTENDS Integers, Sequences, FiniteSets, TLC

VARIABLES fp,    \* FTparam + restricted-rank update scenario
          cvs,   \* cross_validate_run
          gs,    \* CVOptGrid / cross_validate_grid_opt
          ra,    \* ft_regress_run_rankadapt
          os,    \* c3opt_minimize
          ob,    \* a regression driver and its objective evaluations
          fm     \* a function monitor and its table of evaluations

vars == <<fp, cvs, gs, ra, os, ob, fm>>

\* Value of a subsystem variable that is not part of the running specification.
Idle == [pc |-> "idle"]

----------------------------------------------------------------------------
(***************************************************************************)
(* Bounds of the model                                                     *)
(***************************************************************************)
MaxDim == 3
MaxRank == 2
MaxNp == 2
MaxN == 4
MaxY == 2
MaxFit == 2
MaxVals == 2
MaxCases == 4
MaxKick == 2
MaxErr == 2
MaxOptIter == 3
MaxLsIter == 3

----------------------------------------------------------------------------
(***************************************************************************)
(* Arrays                                                                  *)
(***************************************************************************)
\* calloc_double(n) / calloc_size_t(n): n zeroed entries
Calloc(n) == [i \in 0..(n-1) |-> 0]

ALen(a) == Cardinality(DOMAIN a)

RECURSIVE SumTo(_, _)
\* a[0] + ... + a[n-1]
SumTo(a, n) == IF n = 0 THEN 0 ELSE SumTo(a, n-1) + a[n-1]

RECURSIVE ConcatTo(_, _)
\* s[0] \o ... \o s[n-1] for a 0-based array s of sequences
ConcatTo(s, n) == IF n = 0 THEN << >> ELSE ConcatTo(s, n-1) \o s[n-1]

\* What a read past the end of a buffer yields in the pure operators: a value
\* no parameter vector of the model holds.
Garbage == -1

ReadAt(a, i) == IF i \in DOMAIN a THEN a[i] ELSE Garbage

----------------------------------------------------------------------------
(***************************************************************************)
(* FTparam                                                                 *)
(***************************************************************************)
\* Number of univariate functions in cores 0..kk-1
UniBefore(ranks, kk) == SumTo([c \in 0..(kk-1) |-> ranks[c] * ranks[c+1]], kk)

\* ft_param_alloc(dim, aopts, NULL, ranks): aopts[jj] is
\* multi_approx_opts_get_dim_nparams(aopts, jj).  params is calloc'ed, and the
\* FT (ft) is function_train_zeros.
FtParamAlloc(dim, aopts, ranks) ==
    LET nparams_per_core == [jj \in 0..(dim-1) |-> ranks[jj] * ranks[jj+1] * aopts[jj]]
        nuni    == UniBefore(ranks, dim)
        nparams == SumTo(nparams_per_core, dim)
    IN [dim              |-> dim,
        approx_opts      |-> aopts,
        ranks            |-> ranks,
        nparams_per_core |-> nparams_per_core,
        nparams_per_uni  |-> [u \in 0..(nuni-1) |->
                                 aopts[CHOOSE jj \in 0..(dim-1) :
                                         /\ UniBefore(ranks, jj) <= u
                                         /\ u < UniBefore(ranks, jj+1)]],
        nparams          |-> nparams,
        params           |-> Calloc(nparams),
        ft               |-> Calloc(nparams)]

\* function_train_update_params(ftp->ft, ftp->params): the FT takes the flat buffer
FunctionTrainUpdateParams(ftp) == [ftp EXCEPT !.ft = ftp.params]

\* memmove(dst, src, n * sizeof(double)); a source shorter than n is read past its end
Memmove(dst, src, n) == [i \in DOMAIN dst |-> IF i < n THEN ReadAt(src, i) ELSE dst[i]]

\* ft_param_update_params
FtParamUpdateParams(ftp, params) ==
    FunctionTrainUpdateParams([ftp EXCEPT !.params = Memmove(ftp.params, params, ftp.nparams)])

\* The loop nest shared by the restricted-rank functions:
\*   for kk < dim, for jj < ranks[kk+1], for ii < ranks[kk], for ll < nparams_per_uni[ind]
\* as the sequence of its iterations, in order.  ind is the running index of the
\* univariate function; the position in the sequence (less one) is onparam_general.
LoopNest(ftp) ==
    LET ranks == ftp.ranks
        OfUni(kk, jj, ii) ==
            LET ind == UniBefore(ranks, kk) + jj * ranks[kk] + ii
            IN [l \in 1..ftp.nparams_per_uni[ind] |->
                    [kk |-> kk, jj |-> jj, ii |-> ii, ll |-> l-1, ind |-> ind]]
        OfCol(kk, jj) == ConcatTo([ii \in 0..(ranks[kk]-1) |-> OfUni(kk, jj, ii)], ranks[kk])
        OfCore(kk) == ConcatTo([jj \in 0..(ranks[kk+1]-1) |-> OfCol(kk, jj)], ranks[kk+1])
    IN ConcatTo([kk \in 0..(ftp.dim-1) |-> OfCore(kk)], ftp.dim)

\* The test of ft_param_update_restricted_ranks, ft_param_get_nparams_restrict and
\* extract_restricted_vals: the univariate function is at or above the thresholds
AtOrAbove(it, rank_start) ==
    IF it.kk > 0
    THEN (it.ii >= rank_start[it.kk-1]) \/ (it.jj >= rank_start[it.kk])
    ELSE it.jj >= rank_start[it.kk]

\* Below with the row test off by one (<= for <)
BelowRowSlip(it, rank_start) ==
    IF it.kk > 0
    THEN (it.ii <= rank_start[it.kk-1]) /\ (it.jj < rank_start[it.kk])
    ELSE it.jj < rank_start[it.kk]

\* The test of ft_param_update_inside_restricted_ranks
Below(it, rank_start) ==
    IF it.kk > 0
    THEN (it.ii < rank_start[it.kk-1]) /\ (it.jj < rank_start[it.kk])
    ELSE it.jj < rank_start[it.kk]

RECURSIVE NparamsRestrictWalk(_, _, _, _)
NparamsRestrictWalk(nest, k, ftp, rank_start) ==
    IF k = 0 THEN 0
    ELSE NparamsRestrictWalk(nest, k-1, ftp, rank_start)
         + (IF nest[k].ll = 0 /\ AtOrAbove(nest[k], rank_start)
            THEN ftp.nparams_per_uni[nest[k].ind] ELSE 0)

\* ft_param_get_nparams_restrict: adds nparams_per_uni[ind] once per selected function
FtParamGetNparamsRestrict(ftp, rank_start) ==
    LET nest == LoopNest(ftp) IN NparamsRestrictWalk(nest, Len(nest), ftp, rank_start)

RECURSIVE RestrictedWalk(_, _, _, _, _)
\* State after the first k iterations of ft_param_update_restricted_ranks:
\* params, onparam_new, and the set of flat indices written so far
RestrictedWalk(nest, k, ftp, params, rank_start) ==
    IF k = 0 THEN [params |-> ftp.params, onparam_new |-> 0, written |-> {}]
    ELSE LET prev == RestrictedWalk(nest, k-1, ftp, params, rank_start)
             onparam_general == k-1
         IN IF AtOrAbove(nest[k], rank_start)
            THEN [params      |-> [prev.params EXCEPT
                                     ![onparam_general] = ReadAt(params, prev.onparam_new)],
                  onparam_new |-> prev.onparam_new + 1,
                  written     |-> prev.written \cup {onparam_general}]
            ELSE prev

\* The update of every parameter, whatever the thresholds
FtParamUpdateAllRanks(ftp, params, rank_start) == FtParamUpdateParams(ftp, params)

\* ft_param_update_restricted_ranks
FtParamUpdateRestrictedRanks(ftp, params, rank_start) ==
    LET nest == LoopNest(ftp)
        w == RestrictedWalk(nest, Len(nest), ftp, params, rank_start)
    IN FunctionTrainUpdateParams([ftp EXCEPT !.params = w.params])

RECURSIVE InsideWalk(_, _, _, _, _)
\* State after the first k iterations of ft_param_update_inside_restricted_ranks
InsideWalk(nest, k, ftp, params, rank_start) ==
    IF k = 0 THEN [params |-> ftp.params, onparam_new |-> 0, written |-> {}]
    ELSE LET prev == InsideWalk(nest, k-1, ftp, params, rank_start)
             onparam_general == k-1
         IN IF Below(nest[k], rank_start)
            THEN [params      |-> [prev.params EXCEPT
                                     ![onparam_general] = ReadAt(params, prev.onparam_new)],
                  onparam_new |-> prev.onparam_new + 1,
                  written     |-> prev.written \cup {onparam_general}]
            ELSE prev

\* ft_param_update_inside_restricted_ranks
FtParamUpdateInsideRestrictedRanks(ftp, params, rank_start) ==
    LET nest == LoopNest(ftp)
        w == InsideWalk(nest, Len(nest), ftp, params, rank_start)
    IN FunctionTrainUpdateParams([ftp EXCEPT !.params = w.params])

RECURSIVE ExtractWalk(_, _, _, _)
\* State after the first k iterations of extract_restricted_vals: restrict_vals
\* (the entries written so far), onparam_new, and the flat indices read
ExtractWalk(nest, k, full_vals, rank_start) ==
    IF k = 0 THEN [restrict_vals |-> << >>, onparam_new |-> 0, taken |-> {}]
    ELSE LET prev == ExtractWalk(nest, k-1, full_vals, rank_start)
             onparam == k-1
         IN IF AtOrAbove(nest[k], rank_start)
            THEN [restrict_vals |-> [i \in 0..prev.onparam_new |->
                                        IF i = prev.onparam_new
                                        THEN ReadAt(full_vals, onparam)
                                        ELSE prev.restrict_vals[i]],
                  onparam_new   |-> prev.onparam_new + 1,
                  taken         |-> prev.taken \cup {onparam}]
            ELSE prev

\* ExtractRestrictedVals reading full_vals[onparam_new] for full_vals[onparam]
ExtractRestrictedValsIndexSlip(ftp, rank_start, full_vals) ==
    LET nest == LoopNest(ftp)
        n == ExtractWalk(nest, Len(nest), full_vals, rank_start).onparam_new
    IN [i \in 0..(n-1) |-> ReadAt(full_vals, i)]

\* extract_restricted_vals: the entries it writes to restrict_vals, in order
ExtractRestrictedVals(ftp, rank_start, full_vals) ==
    LET nest == LoopNest(ftp)
    IN ExtractWalk(nest, Len(nest), full_vals, rank_start).restrict_vals

----------------------------------------------------------------------------
(***************************************************************************)
(* SpecFtp: the FTparam update functions applied to one FTparam.           *)
(* fp.ftp is the FTparam, fp.rank_start the thresholds                     *)
(* (regopts->restrict_rank_opt, dim entries), fp.full_vals a full parameter*)
(* vector, fp.restrict_vals the output buffer of extract_restricted_vals.  *)
(* fp.log lists the calls made so far; fp.wrote / fp.used record, per      *)
(* call, the flat indices it wrote and the number of input entries it read.*)
(***************************************************************************)
\* ranks (dim+1 entries) with boundary ranks 1 and the given interior ranks
MkRanks(dim, inner) == [i \in 0..dim |-> IF i = 0 \/ i = dim THEN 1 ELSE inner[i]]

\* per-dimension parameter counts of the approximation options, pattern s
MkAopts(dim, s) == [jj \in 0..(dim-1) |-> 1 + ((jj + s) % MaxNp)]

\* a full parameter vector with pairwise different entries
FullVals(n) == [i \in 0..(n-1) |-> 101 + i]

RECURSIVE SubSeq0(_, _, _)
SubSeq0(v, S, n) ==
    IF n = 0 THEN << >>
    ELSE IF (n-1) \in S THEN Append(SubSeq0(v, S, n-1), v[n-1]) ELSE SubSeq0(v, S, n-1)

\* The entries of v at the indices S, in increasing index order, as an array
SubVector(v, S) ==
    LET s == SubSeq0(v, S, ALen(v)) IN [i \in 0..(Len(s)-1) |-> s[i+1]]

\* The flat indices ft_param_update_restricted_ranks writes
RestrictedIndices(ftp, rank_start) ==
    LET nest == LoopNest(ftp)
    IN RestrictedWalk(nest, Len(nest), ftp, ftp.params, rank_start).written

\* The flat indices ft_param_update_inside_restricted_ranks writes
InsideIndices(ftp, rank_start) ==
    LET nest == LoopNest(ftp)
    IN InsideWalk(nest, Len(nest), ftp, ftp.params, rank_start).written

FtpInit ==
    /\ cvs = Idle /\ gs = Idle /\ ra = Idle /\ os = Idle /\ ob = Idle /\ fm = Idle
    /\ \E dim \in 1..MaxDim :
      \E inner \in [1..(dim-1) -> 1..MaxRank], s \in 0..(MaxNp-1),
         rank_start \in [0..(dim-1) -> 0..MaxRank] :
        LET ftp == FtParamAlloc(dim, MkAopts(dim, s), MkRanks(dim, inner))
        IN fp = [pc            |-> "run",
                 ftp           |-> ftp,
                 rank_start    |-> rank_start,
                 full_vals     |-> FullVals(ftp.nparams),
                 restrict_vals |-> << >>,
                 extracted     |-> FALSE,
                 log           |-> << >>,
                 wrote         |-> [restricted |-> {}, inside |-> {}],
                 used          |-> [restricted |-> 0, inside |-> 0],
                 given         |-> [restricted |-> 0, inside |-> 0]]

Called(name) == \E i \in 1..Len(fp.log) : fp.log[i] = name

\* ft_param_update_params(ftp, full_vals)
FpUpdateParams ==
    /\ fp.pc = "run" /\ ~Called("full")
    /\ fp' = [fp EXCEPT !.ftp = FtParamUpdateParams(fp.ftp, fp.full_vals),
                        !.log = Append(fp.log, "full")]
    /\ UNCHANGED <<cvs, gs, ra, os, ob, fm>>

\* extract_restricted_vals(regopts, ftp, full_vals, restrict_vals)
FpExtractRestrictedVals ==
    /\ fp.pc = "run" /\ ~fp.extracted
    /\ fp' = [fp EXCEPT !.restrict_vals =
                            ExtractRestrictedVals(fp.ftp, fp.rank_start, fp.full_vals),
                        !.extracted = TRUE,
                        !.log = Append(fp.log, "extract")]
    /\ UNCHANGED <<cvs, gs, ra, os, ob, fm>>

\* ft_param_update_restricted_ranks(ftp, v, rank_start), v being either the
\* buffer extract_restricted_vals filled or the entries of full_vals at the
\* indices the function writes
FpUpdateRestrictedRanks ==
    /\ fp.pc = "run" /\ ~Called("restricted")
    /\ \E src \in {"extracted", "split"} :
         /\ src = "extracted" => fp.extracted
         /\ LET v == IF src = "extracted" THEN fp.restrict_vals
                     ELSE SubVector(fp.full_vals, RestrictedIndices(fp.ftp, fp.rank_start))
                nest == LoopNest(fp.ftp)
                w == RestrictedWalk(nest, Len(nest), fp.ftp, v, fp.rank_start)
            IN fp' = [fp EXCEPT !.ftp = FtParamUpdateRestrictedRanks(fp.ftp, v, fp.rank_start),
                                !.log = Append(fp.log, "restricted"),
                                !.wrote.restricted = w.written,
                                !.used.restricted = w.onparam_new,
                                !.given.restricted = ALen(v)]
    /\ UNCHANGED <<cvs, gs, ra, os, ob, fm>>

\* ft_param_update_inside_restricted_ranks(ftp, v, rank_start), v being the
\* entries of full_vals at the indices the function writes
FpUpdateInsideRestrictedRanks ==
    /\ fp.pc = "run" /\ ~Called("inside")
    /\ LET v == SubVector(fp.full_vals, InsideIndices(fp.ftp, fp.rank_start))
           nest == LoopNest(fp.ftp)
           w == InsideWalk(nest, Len(nest), fp.ftp, v, fp.rank_start)
       IN fp' = [fp EXCEPT !.ftp = FtParamUpdateInsideRestrictedRanks(fp.ftp, v, fp.rank_start),
                           !.log = Append(fp.log, "inside"),
                           !.wrote.inside = w.written,
                           !.used.inside = w.onparam_new,
                           !.given.inside = ALen(v)]
    /\ UNCHANGED <<cvs, gs, ra, os, ob, fm>>

FtpNext ==
    \/ FpUpdateParams
    \/ FpExtractRestrictedVals
    \/ FpUpdateRestrictedRanks
    \/ FpUpdateInsideRestrictedRanks

SpecFtp == FtpInit /\ [][FtpNext]_vars

\* C6: ft_param_update_restricted_ranks and ft_param_update_inside_restricted_ranks
\* write disjoint sets of flat indices that together are all of 0..nparams-1, each
\* reads its input vector from the first entry to the last, and once both have been
\* applied with the two parts of the full vector, the FTparam is what
\* ft_param_update_params leaves with the full vector.
C6_PartitionRoundTrip ==
    (fp.pc = "run" /\ Called("restricted") /\ Called("inside")) =>
        /\ fp.wrote.restricted \cap fp.wrote.inside = {}
        /\ fp.wrote.restricted \cup fp.wrote.inside = 0..(fp.ftp.nparams-1)
        /\ fp.used.restricted = fp.given.restricted
        /\ fp.used.inside = fp.given.inside
        /\ fp.ftp.params = fp.full_vals
        /\ fp.ftp = FtParamUpdateParams(fp.ftp, fp.full_vals)

\* C6 witness: both partial updates ran on a calloc'ed FTparam (no full update),
\* each of them wrote something, and a threshold is positive
C6_Witness ==
    /\ fp.pc = "run" /\ Called("restricted") /\ Called("inside") /\ ~Called("full")
    /\ fp.wrote.restricted # {} /\ fp.wrote.inside # {}
    /\ fp.ftp.dim = MaxDim
    /\ fp.ftp.params = fp.full_vals

\* C7: extract_restricted_vals takes exactly the entries of the full vector at the
\* flat indices ft_param_update_restricted_ranks writes, in that order; it writes
\* ft_param_get_nparams_restrict entries; and writing them back with
\* ft_param_update_restricted_ranks into an FTparam holding the full vector
\* leaves the full vector in place.
C7_ExtractMatchesUpdate ==
    (fp.pc = "run" /\ fp.extracted) =>
        /\ ALen(fp.restrict_vals) = FtParamGetNparamsRestrict(fp.ftp, fp.rank_start)
        /\ fp.restrict_vals =
              SubVector(fp.full_vals, RestrictedIndices(fp.ftp, fp.rank_start))
        /\ (Called("full") /\ ~Called("inside")
            /\ Called("restricted") /\ fp.given.restricted = ALen(fp.restrict_vals)
            /\ fp.log[Len(fp.log)] = "restricted")
             => /\ fp.ftp.params = fp.full_vals
                /\ fp.used.restricted = ALen(fp.restrict_vals)

\* C7 witness: the full vector was set, a proper non-empty part of it extracted
\* and written back
C7_Witness ==
    /\ fp.pc = "run" /\ fp.log = <<"full", "extract", "restricted">>
    /\ ALen(fp.restrict_vals) > 0 /\ ALen(fp.restrict_vals) < fp.ftp.nparams
    /\ fp.ftp.params = fp.full_vals

----------------------------------------------------------------------------
(***************************************************************************)
(* Cross validation (cross_validate_run)                                   *)
(*                                                                         *)
(* cvs holds the CrossValidate struct (N, dim, x, y, kfold), the locals of *)
(* cross_validate_run, the regression handle reg (ftp, adapt) and the FT   *)
(* the last ft_regress_run returned.  The numerical routines are outside   *)
(* the model: a regression leaves every parameter at one fitted value, and *)
(* function_train_eval is a fixed function of the FT's parameters and the  *)
(* point.  With cvs.learner = "any" the fitted value is any value; with    *)
(* "det" it is a function of the training rows (as a bag) and of the       *)
(* parameters the regression started from.                                 *)
(* Ghost fields: entry (reg.ftp on entry), blocks (the test blocks taken), *)
(* heldout (row and prediction of every scored row), results (the value    *)
(* returned by each call).                                                 *)
(***************************************************************************)
\* memmove(dst + doff, src + soff, n * sizeof(double))
MemmoveAt(dst, doff, src, soff, n) ==
    [i \in DOMAIN dst |-> IF doff <= i /\ i < doff + n
                          THEN ReadAt(src, soff + (i - doff)) ELSE dst[i]]

\* extract_data ignoring the part of the training set after the test block
ExtractDataNoTail(cv, start, num_extract, buf) ==
    [xtest  |-> MemmoveAt(buf.xtest, 0, cv.x, start * cv.dim, cv.dim * num_extract),
     ytest  |-> MemmoveAt(buf.ytest, 0, cv.y, start, num_extract),
     xtrain |-> MemmoveAt(buf.xtrain, 0, cv.x, 0, cv.dim * start),
     ytrain |-> MemmoveAt(buf.ytrain, 0, cv.y, 0, start)]

\* extract_data: buf holds the four caller-allocated arrays
ExtractData(cv, start, num_extract, buf) ==
    LET xtrain1 == MemmoveAt(buf.xtrain, 0, cv.x, 0, cv.dim * start)
        ytrain1 == MemmoveAt(buf.ytrain, 0, cv.y, 0, start)
    IN [xtest  |-> MemmoveAt(buf.xtest, 0, cv.x, start * cv.dim, cv.dim * num_extract),
        ytest  |-> MemmoveAt(buf.ytest, 0, cv.y, start, num_extract),
        xtrain |-> MemmoveAt(xtrain1, start * cv.dim, cv.x, (start + num_extract) * cv.dim,
                             cv.dim * (cv.N - start - num_extract)),
        ytrain |-> MemmoveAt(ytrain1, start, cv.y, start + num_extract,
                             cv.N - start - num_extract)]

\* function_train_copy(ftp->ft): the FT a regression returns
FunctionTrainCopy(ftp) == [ranks |-> ftp.ranks, params |-> ftp.ft]

\* function_train_eval(ft, x + jj*dim): a fixed function of the parameters and the point
FunctionTrainEval(ft, x, jj, dim) ==
    (SumTo(ft.params, ALen(ft.params)) + SumTo([d \in 0..(dim-1) |-> x[jj * dim + d]], dim)) % 3

\* The fitted value of the deterministic learner: a function of the training rows
\* as a bag (sums over the rows) and of the starting parameters
Learner(ntrain, dim, xtrain, ytrain, start_params) ==
    1 + ((SumTo(xtrain, ntrain * dim) + SumTo(ytrain, ntrain)
          + SumTo(start_params, ALen(start_params))) % MaxFit)

\* c3_regression_run on the handle: the optimizer's iterate is written into ftp
C3RegressionRun(ftp, fitted) ==
    FtParamUpdateParams(ftp, [i \in 0..(ftp.nparams-1) |-> fitted])

\* ft_regress_reset_param: a fresh FTparam of the given ranks
FtRegressResetParam(reg, ranks) ==
    [reg EXCEPT !.ftp = FtParamAlloc(reg.ftp.dim, reg.ftp.approx_opts, ranks)]

\* ft_regress_update_params that does nothing
FtRegressUpdateParamsSkip(reg, param) == reg

\* ft_regress_update_params
FtRegressUpdateParams(reg, param) ==
    [reg EXCEPT !.ftp = FtParamUpdateParams(reg.ftp, param)]

\* the inner loop over the test block leaving out the square of the label
FoldErrNoSquare(ft, xtest, ytest, batch, dim) ==
    LET eval(jj) == FunctionTrainEval(ft, xtest, jj, dim)
    IN [newerr  |-> SumTo([jj \in 0..(batch-1) |->
                             (ytest[jj] - eval(jj)) * (ytest[jj] - eval(jj))], batch),
        newnorm |-> SumTo([jj \in 0..(batch-1) |-> ytest[jj]], batch)]

\* the inner loop over the test block: newerr and newnorm
FoldErr(ft, xtest, ytest, batch, dim) ==
    LET eval(jj) == FunctionTrainEval(ft, xtest, jj, dim)
    IN [newerr  |-> SumTo([jj \in 0..(batch-1) |->
                             (ytest[jj] - eval(jj)) * (ytest[jj] - eval(jj))], batch),
        newnorm |-> SumTo([jj \in 0..(batch-1) |-> ytest[jj] * ytest[jj]], batch)]

\* erri/norm as an exact fraction
Ratio(erri, norm) == [num |-> erri, den |-> norm]

\* equality of two fractions
SameRatio(a, b) == a.num * b.den = b.num * a.den

\* Features: row i holds the values 10*(i+1) + d, which name the row and the column
Features(N, dim) == [k \in 0..(N * dim - 1) |-> 10 * ((k \div dim) + 1) + (k % dim)]

\* A regression handle of the given ranks whose parameters are all 1
MkReg(dim, ranks, adapt) ==
    LET ftp0 == FtParamAlloc(dim, [jj \in 0..(dim-1) |-> 1], ranks)
    IN [ftp   |-> FtParamUpdateParams(ftp0, [i \in 0..(ftp0.nparams-1) |-> 1]),
        adapt |-> adapt]

CvInit ==
    /\ fp = Idle /\ gs = Idle /\ ra = Idle /\ os = Idle /\ ob = Idle /\ fm = Idle
    /\ \E N \in 1..MaxN, dim \in {1, 2}, adapt \in {0, 1}, learner \in {"any", "det"} :
       \E kfold \in 1..N, y \in [0..(N-1) -> 1..MaxY], r \in 1..(IF dim = 1 THEN 1 ELSE MaxRank) :
         /\ adapt = 1 => learner = "any"
         /\ cvs = [pc |-> "call",
                N |-> N, dim |-> dim, x |-> Features(N, dim), y |-> y, kfold |-> kfold,
                reg |-> MkReg(dim, MkRanks(dim, [i \in 1..(dim-1) |-> r]), adapt),
                learner |-> learner,
                batch |-> 0, start_num |-> 0, ii |-> 0, ntrain |-> 0,
                erri |-> 0, norm |-> 0,
                params |-> << >>,
                buf |-> [xtest |-> << >>, ytest |-> << >>, xtrain |-> << >>, ytrain |-> << >>],
                ft |-> [ranks |-> << >>, params |-> << >>],
                entry |-> [nparams |-> 0, ranks |-> << >>, params |-> << >>],
                blocks |-> << >>, heldout |-> << >>, results |-> << >>]

\* cross_validate_run, lines 2947-2965: batch size, buffers, the snapshot of the parameters
CvEnter ==
    /\ cvs.pc = "call"
    /\ cvs' = [cvs EXCEPT
                 !.pc = "loop",
                 !.batch = cvs.N \div cvs.kfold,
                 !.start_num = 0, !.ii = 0, !.erri = 0, !.norm = 0,
                 !.buf = [xtest  |-> Calloc(cvs.N * cvs.dim), ytest  |-> Calloc(cvs.N),
                          xtrain |-> Calloc(cvs.N * cvs.dim), ytrain |-> Calloc(cvs.N)],
                 !.params = Memmove(Calloc(cvs.reg.ftp.nparams), cvs.reg.ftp.params,
                                    cvs.reg.ftp.nparams),
                 !.entry = [nparams |-> cvs.reg.ftp.nparams, ranks |-> cvs.reg.ftp.ranks,
                            params |-> cvs.reg.ftp.params],
                 !.blocks = << >>, !.heldout = << >>]
    /\ UNCHANGED <<fp, gs, ra, os, ob, fm>>

\* lines 2966-2985: the last fold takes the rest; extract_data; ntrain
CvExtract ==
    /\ cvs.pc = "loop" /\ cvs.ii < cvs.kfold
    /\ LET batch == IF cvs.ii = cvs.kfold - 1 THEN cvs.N - cvs.start_num ELSE cvs.batch
       IN cvs' = [cvs EXCEPT
                    !.pc = "regress",
                    !.batch = batch,
                    !.buf = ExtractData(cvs, cvs.start_num, batch, cvs.buf),
                    !.ntrain = cvs.N - batch,
                    !.blocks = Append(cvs.blocks, [start |-> cvs.start_num, batch |-> batch])]
    /\ UNCHANGED <<fp, gs, ra, os, ob, fm>>

\* line 2989: ft_regress_run(reg, optimizer, ntrain, xtrain, ytrain).  With adapt == 1
\* it is ft_regress_run_rankadapt, which may leave the handle with other ranks (a
\* fresh FTparam) and returns with adapt == 1; otherwise c3_regression_run.
CvRegress ==
    /\ cvs.pc = "regress"
    /\ \E fitted \in 1..MaxFit :
         /\ (cvs.learner = "det" /\ cvs.reg.adapt = 0) =>
               fitted = Learner(cvs.ntrain, cvs.dim, cvs.buf.xtrain, cvs.buf.ytrain,
                                cvs.reg.ftp.params)
         /\ \E inner \in [1..(cvs.dim-1) -> 1..MaxRank] :
              /\ cvs.reg.adapt = 0 => MkRanks(cvs.dim, inner) = cvs.reg.ftp.ranks
              /\ LET reg1 == IF MkRanks(cvs.dim, inner) = cvs.reg.ftp.ranks THEN cvs.reg
                             ELSE FtRegressResetParam(cvs.reg, MkRanks(cvs.dim, inner))
                     ftp2 == C3RegressionRun(reg1.ftp, fitted)
                 IN cvs' = [cvs EXCEPT !.pc = "score",
                                       !.reg = [reg1 EXCEPT !.ftp = ftp2],
                                       !.ft = FunctionTrainCopy(ftp2)]
    /\ UNCHANGED <<fp, gs, ra, os, ob, fm>>

\* lines 2991-3012: score the test block, add to the totals, advance start_num
CvScore ==
    /\ cvs.pc = "score"
    /\ LET f == FoldErr(cvs.ft, cvs.buf.xtest, cvs.buf.ytest, cvs.batch, cvs.dim)
       IN cvs' = [cvs EXCEPT
                    !.pc = "reset",
                    !.erri = cvs.erri + f.newerr,
                    !.norm = cvs.norm + f.newnorm,
                    !.start_num = cvs.start_num + cvs.batch,
                    !.heldout = cvs.heldout \o
                        [j \in 1..cvs.batch |->
                            [row  |-> cvs.start_num + (j-1),
                             eval |-> FunctionTrainEval(cvs.ft, cvs.buf.xtest, j-1, cvs.dim)]]]
    /\ UNCHANGED <<fp, gs, ra, os, ob, fm>>

\* line 3015: ft_regress_update_params(reg, params).  It copies reg->ftp->nparams
\* entries; when the handle now has more parameters than the snapshot, the copy
\* reads past the end of params and those entries are whatever lies there.
CvReset ==
    /\ cvs.pc = "reset"
    /\ \E junk \in {0, Garbage} :
         LET n == cvs.reg.ftp.nparams
             src == [i \in 0..(n-1) |-> IF i \in DOMAIN cvs.params THEN cvs.params[i] ELSE junk]
         IN cvs' = [cvs EXCEPT !.pc = "loop",
                               !.ii = cvs.ii + 1,
                               !.reg = FtRegressUpdateParams(cvs.reg,
                                          IF n > ALen(cvs.params) THEN src ELSE cvs.params)]
    /\ UNCHANGED <<fp, gs, ra, os, ob, fm>>

\* lines 3020-3029: err = erri/norm
CvReturn ==
    /\ cvs.pc = "loop" /\ cvs.ii >= cvs.kfold
    /\ cvs' = [cvs EXCEPT !.pc = "done",
                          !.results = Append(cvs.results, Ratio(cvs.erri, cvs.norm))]
    /\ UNCHANGED <<fp, gs, ra, os, ob, fm>>

\* The rows of block b of the split of N rows into kfold blocks
BlockRows(N, kfold, b) ==
    LET size == N \div kfold
    IN IF b = kfold - 1 THEN (b * size)..(N-1) ELSE (b * size)..((b+1) * size - 1)

RECURSIVE RowsInOrder(_, _, _, _)
\* The row indices of the blocks order[1..n], one block after the other
RowsInOrder(N, kfold, order, n) ==
    IF n = 0 THEN << >>
    ELSE LET rows == BlockRows(N, kfold, order[n])
             lo == CHOOSE r \in rows : \A q \in rows : r <= q
         IN RowsInOrder(N, kfold, order, n-1) \o [j \in 1..Cardinality(rows) |-> lo + (j-1)]

\* The caller runs cross validation once more (as rank adaptation and grid search
\* do) on the same rows with the test blocks taken in another order; the second
\* run is followed for the deterministic learner
CvAgain ==
    /\ cvs.pc = "done" /\ Len(cvs.results) = 1
    /\ cvs.learner = "det"
    /\ \E order \in [1..cvs.kfold -> 0..(cvs.kfold-1)] :
         /\ \A a, b \in 1..cvs.kfold : a # b => order[a] # order[b]
         /\ LET rows == RowsInOrder(cvs.N, cvs.kfold, order, cvs.kfold)
            IN cvs' = [cvs EXCEPT
                         !.pc = "call",
                         !.x = [k \in 0..(cvs.N * cvs.dim - 1) |->
                                   cvs.x[rows[(k \div cvs.dim) + 1] * cvs.dim + (k % cvs.dim)]],
                         !.y = [i \in 0..(cvs.N-1) |-> cvs.y[rows[i+1]]]]
    /\ UNCHANGED <<fp, gs, ra, os, ob, fm>>

CvNext ==
    \/ CvEnter
    \/ CvExtract
    \/ CvRegress
    \/ CvScore
    \/ CvReset
    \/ CvReturn
    \/ CvAgain

SpecCv == CvInit /\ [][CvNext]_vars

\* C2 (as stated): at the start of every fold's regression and on return, the
\* parameter count, the ranks and the parameter values of reg->ftp equal what they
\* were on entry to cross_validate_run, whatever the fold regressions did
\* (reg->adapt == 1 included).
C2_NoLeak ==
    cvs.pc \in {"regress", "done"} =>
        /\ cvs.reg.ftp.nparams = cvs.entry.nparams
        /\ cvs.reg.ftp.ranks = cvs.entry.ranks
        /\ cvs.reg.ftp.params = cvs.entry.params

C4_RatioOfTotals ==
    cvs.pc = "done" =>
        LET h == cvs.heldout
            res(j) == cvs.y[h[j+1].row] - h[j+1].eval
        IN /\ Len(h) = cvs.N
           /\ {h[j].row : j \in 1..Len(h)} = 0..(cvs.N-1)
           /\ cvs.results[Len(cvs.results)] =
                 [num |-> SumTo([j \in 0..(Len(h)-1) |-> res(j) * res(j)], Len(h)),
                  den |-> SumTo([j \in 0..(Len(h)-1) |->
                                    cvs.y[h[j+1].row] * cvs.y[h[j+1].row]], Len(h))]

\* A return after two folds for which the mean of the two per-fold ratios is another
\* number than the ratio of the totals
C4_Witness ==
    /\ cvs.pc = "done" /\ cvs.kfold = 2
    /\ LET h == cvs.heldout
           InBlock(b) == {j \in 1..Len(h) :
                            /\ cvs.blocks[b].start <= h[j].row
                            /\ h[j].row < cvs.blocks[b].start + cvs.blocks[b].batch}
           res(j) == cvs.y[h[j].row] - h[j].eval
           e(b) == SumTo([j \in 0..(Len(h)-1) |->
                            IF (j+1) \in InBlock(b) THEN res(j+1) * res(j+1) ELSE 0], Len(h))
           n(b) == SumTo([j \in 0..(Len(h)-1) |->
                            IF (j+1) \in InBlock(b)
                            THEN cvs.y[h[j+1].row] * cvs.y[h[j+1].row] ELSE 0], Len(h))
       IN (e(1) * n(2) + e(2) * n(1)) * (n(1) + n(2)) # 2 * n(1) * n(2) * (e(1) + e(2))

\* C5: when N is divisible by kfold and a fold's fit depends only on its training
\* set and the common starting parameters, a second run over the same rows with the
\* folds in another order returns the same error.
C5_FoldOrderInvariant ==
    ( /\ cvs.pc = "done" /\ Len(cvs.results) = 2
      /\ cvs.learner = "det" /\ cvs.reg.adapt = 0
      /\ cvs.N % cvs.kfold = 0 )
    => SameRatio(cvs.results[1], cvs.results[2])

\* Two runs with at least two folds of at least two rows each, the second over the
\* blocks in another order, and a nonzero error
C5_Witness ==
    /\ cvs.pc = "done" /\ Len(cvs.results) = 2
    /\ cvs.learner = "det" /\ cvs.reg.adapt = 0
    /\ cvs.N % cvs.kfold = 0 /\ cvs.kfold >= 2 /\ cvs.kfold < cvs.N
    /\ cvs.x # Features(cvs.N, cvs.dim)
    /\ cvs.results[1].num > 0

----------------------------------------------------------------------------
(***************************************************************************)
(* Grid search over hyperparameters (cross_validate_grid_opt)              *)
(*                                                                         *)
(* gs holds the CVOptGrid under construction, the regression handle ftr    *)
(* and the optimizer, and the locals of cross_validate_grid_opt.  A list   *)
(* CVCList is a sequence whose first element is the head.  Errors are      *)
(* integers in units of 1e-9 of the largest one, so that the factor        *)
(* 0.999999999 is exact.  The ghost field errs holds the cross-validation  *)
(* error of each case in the order the cases were run.                     *)
(***************************************************************************)
\* reg_param_names
RegParamNames == {"rank", "num_param", "opt_maxiter", "reg_weight"}

\* NRPARAM
NRPARAM == 4

\* DBL_MAX: larger than every error by more than the tolerance
DblMax == 2147483647

\* The denominator of the tolerance 0.999999999 = 1 - 1/Billion
Billion == 1000000000

\* The cross-validation errors a case can have: two within the tolerance of each
\* other and one clearly lower
ErrVals == {500000000, 999999999, 1000000000}

\* err < besterr*0.999999999
LessTol(err, besterr) == besterr - err > besterr \div Billion

\* cv_opt_grid_init
CvOptGridInit(ncvparam) ==
    [ncvparam |-> ncvparam, names |-> << >>, nvals |-> << >>, params |-> << >>, onparam |-> 0]

\* cv_opt_grid_add_param below the capacity; vals is a 0-based array of nvals values
CvOptGridAddParam(cv, name, nvals, vals) ==
    [cv EXCEPT !.names = Append(@, name), !.nvals = Append(@, nvals),
               !.params = Append(@, Memmove(Calloc(nvals), vals, nvals)),
               !.onparam = @ + 1]

\* cv_case_alloc
CvCaseAlloc(nparam) == [nparam |-> nparam, params |-> << >>, onparam |-> 0]

\* cv_case_add_param / reg_parameter_alloc
CvCaseAddParam(c, name, val) ==
    [c EXCEPT !.params = Append(@, [name |-> name, val |-> val]), !.onparam = @ + 1]

\* cvc_list_push: the new case becomes the head
CvcListPush(list, nparam) == <<CvCaseAlloc(nparam)>> \o list

\* cvc_list_update_case: adds to the case at the head
CvcListUpdateCase(list, name, val) ==
    [list EXCEPT ![1] = CvCaseAddParam(list[1], name, val)]

RECURSIVE ProdTo(_, _, _)
\* nvals[from] * ... * nvals[to], 1-based
ProdTo(nvals, from, to) ==
    IF from > to THEN 1 ELSE nvals[from] * ProdTo(nvals, from + 1, to)

\* The loop indices (ii, jj, kk) of the k-th pass through the innermost loop body
LoopIndex(cv, k, p) == (k \div ProdTo(cv.nvals, p + 1, cv.onparam)) % cv.nvals[p]

RECURSIVE UpdateBasedType(_, _, _, _)
\* The update_based_type calls of one loop body, for parameters p..onparam
UpdateBasedType(cv, list, k, p) ==
    IF p > cv.onparam THEN list
    ELSE UpdateBasedType(cv, CvcListUpdateCase(list, cv.names[p],
                                              cv.params[p][LoopIndex(cv, k, p)]), k, p + 1)

RECURSIVE SetupLoop(_, _, _)
\* The nested loops of cv_opt_grid_setup_cases from the k-th pass on
SetupLoop(cv, list, k) ==
    IF k >= ProdTo(cv.nvals, 1, cv.onparam) THEN list
    ELSE SetupLoop(cv, UpdateBasedType(cv, CvcListPush(list, cv.onparam), k, 1), k + 1)

\* cv_opt_grid_setup_cases: one, two or three parameters; otherwise a message is
\* printed and the list stays NULL (the empty sequence)
CvOptGridSetupCases(cv) ==
    IF cv.onparam \in {1, 2, 3} THEN SetupLoop(cv, << >>, 0) ELSE << >>

\* The value of the last parameter of the case with the given name
CaseVal(c, name) ==
    LET last == CHOOSE i \in 1..c.onparam :
                   /\ c.params[i].name = name
                   /\ \A j \in (i+1)..c.onparam : c.params[j].name # name
    IN c.params[last].val

\* cv_case_process: set what the case names, and always reset the parameterization
CvCaseProcess(c, ftr, optimizer) ==
    LET up(name) == \E i \in 1..c.onparam : c.params[i].name = name
        ftp == ftr.ftp
        ranks == IF up("rank")
                 THEN [i \in 0..ftp.dim |-> IF i = 0 \/ i = ftp.dim THEN 1 ELSE CaseVal(c, "rank")]
                 ELSE ftp.ranks
        aopts == IF up("num_param")
                 THEN [ii \in 0..(ftp.dim-1) |-> CaseVal(c, "num_param")]
                 ELSE ftp.approx_opts
        ftr1 == [ftr EXCEPT !.ftp = FtParamAlloc(ftp.dim, aopts, ranks)]
    IN [ftr |-> IF up("reg_weight")
                THEN [ftr1 EXCEPT !.regweight = CaseVal(c, "reg_weight")] ELSE ftr1,
        optimizer |-> IF up("opt_maxiter")
                      THEN [optimizer EXCEPT !.maxiter = CaseVal(c, "opt_maxiter")]
                      ELSE optimizer]

\* The walk to the best case stopping at the end of the list instead
LastCase(list, bestiter) == list[Len(list)]

\* temp = cvlist; for (ii < bestiter) temp = temp->next
BestCase(list, bestiter) == list[bestiter + 1]

\* The values of a grid parameter: nvals consecutive values from 2, up or down
GridVals(nvals, asc) ==
    [k \in 0..(nvals-1) |-> IF asc THEN 2 + k ELSE 1 + nvals - k]

GridInit ==
    /\ fp = Idle /\ cvs = Idle /\ ra = Idle /\ os = Idle /\ ob = Idle /\ fm = Idle
    /\ \E ncvparam \in 0..NRPARAM :
         gs = [pc |-> "build",
               cvgrid |-> CvOptGridInit(ncvparam),
               ftr |-> [ftp |-> MkReg(2, MkRanks(2, [i \in 1..1 |-> 1]), 0).ftp,
                        adapt |-> 0, regweight |-> 1],
               optimizer |-> [maxiter |-> 1],
               cvlist |-> << >>, temp |-> 0, iter |-> 0, bestiter |-> 0, besterr |-> 0,
               errs |-> << >>]

\* cv_opt_grid_add_param: a parameter not yet in the grid, with 0..MaxVals values
GridAddParam ==
    /\ gs.pc = "build"
    /\ \E name \in RegParamNames, nvals \in 0..MaxVals, asc \in BOOLEAN :
         /\ \A i \in 1..gs.cvgrid.onparam : gs.cvgrid.names[i] # name
         /\ nvals < 2 => asc
         /\ nvals * ProdTo(gs.cvgrid.nvals, 1, gs.cvgrid.onparam) <= MaxCases
         /\ IF gs.cvgrid.onparam = gs.cvgrid.ncvparam
            THEN gs' = [gs EXCEPT !.pc = "exit"]
            ELSE gs' = [gs EXCEPT !.cvgrid = CvOptGridAddParam(gs.cvgrid, name, nvals,
                                                               GridVals(nvals, asc))]
    /\ UNCHANGED <<fp, cvs, ra, os, ob, fm>>

\* cross_validate_grid_opt, lines 3494-3506: set up the cases and the search
GridOptSetup ==
    /\ gs.pc = "build"
    /\ gs' = [gs EXCEPT !.pc = "search",
                        !.cvlist = CvOptGridSetupCases(gs.cvgrid),
                        !.temp = 1, !.iter = 0, !.bestiter = 0, !.besterr = DblMax]
    /\ UNCHANGED <<fp, cvs, ra, os, ob, fm>>

\* One pass of the while loop, lines 3507-3521; err is what cross_validate_run returns
GridOptCase ==
    /\ gs.pc = "search" /\ gs.temp <= Len(gs.cvlist)
    /\ \E err \in ErrVals :
         LET st == CvCaseProcess(gs.cvlist[gs.temp], gs.ftr, gs.optimizer)
             better == LessTol(err, gs.besterr)
         IN gs' = [gs EXCEPT !.ftr = st.ftr, !.optimizer = st.optimizer,
                             !.besterr = IF better THEN err ELSE @,
                             !.bestiter = IF better THEN gs.iter ELSE @,
                             !.temp = @ + 1, !.iter = @ + 1,
                             !.errs = Append(@, err)]
    /\ UNCHANGED <<fp, cvs, ra, os, ob, fm>>

\* Lines 3523-3539: walk to the best case and process it again.  With an empty list
\* temp is NULL and temp->cv is a read through a null pointer.
GridOptBest ==
    /\ gs.pc = "search" /\ gs.temp > Len(gs.cvlist)
    /\ IF gs.cvlist = << >>
       THEN gs' = [gs EXCEPT !.pc = "nullderef"]
       ELSE LET st == CvCaseProcess(BestCase(gs.cvlist, gs.bestiter), gs.ftr, gs.optimizer)
            IN gs' = [gs EXCEPT !.pc = "done", !.ftr = st.ftr, !.optimizer = st.optimizer]
    /\ UNCHANGED <<fp, cvs, ra, os, ob, fm>>

GridNext ==
    \/ GridAddParam
    \/ GridOptSetup
    \/ GridOptCase
    \/ GridOptBest

SpecGrid == GridInit /\ [][GridNext]_vars

\* The position of the value the case has for the p-th grid parameter
ValueIndex(cv, c, p) ==
    CHOOSE k \in 0..(cv.nvals[p]-1) : cv.params[p][k] = c.params[p].val

\* Case a comes before case b in the grid's enumeration order: values in the order
\* supplied, the first-added parameter outermost
EnumBefore(cv, a, b) ==
    \E p \in 1..cv.onparam :
        /\ \A q \in 1..(p-1) : ValueIndex(cv, a, q) = ValueIndex(cv, b, q)
        /\ ValueIndex(cv, a, p) < ValueIndex(cv, b, p)

\* C8 (as stated): on return no combination has an error lower than the selected
\* one by more than the tolerance, and no combination that comes earlier in the
\* enumeration order has an error within the tolerance of the selected one.
C8_LowestEarliestSelected ==
    gs.pc = "done" =>
        LET sel == gs.bestiter + 1
        IN \A t \in 1..Len(gs.cvlist) :
              /\ ~ LessTol(gs.errs[t], gs.errs[sel])
              /\ ~ ( /\ EnumBefore(gs.cvgrid, gs.cvlist[t], gs.cvlist[sel])
                     /\ ~ LessTol(gs.errs[sel], gs.errs[t]) )

\* C9: on return, for every hyperparameter named in the grid the regression handle
\* and the optimizer carry the value of the selected best combination.
C9_BestValuesApplied ==
    gs.pc = "done" =>
        LET best == gs.cvlist[gs.bestiter + 1]
            ftp == gs.ftr.ftp
            named(name) == \E i \in 1..gs.cvgrid.onparam : gs.cvgrid.names[i] = name
        IN /\ named("rank") =>
                 /\ \A i \in 1..(ftp.dim-1) : ftp.ranks[i] = CaseVal(best, "rank")
                 /\ ftp.ranks[0] = 1 /\ ftp.ranks[ftp.dim] = 1
           /\ named("num_param") =>
                 \A ii \in 0..(ftp.dim-1) : ftp.approx_opts[ii] = CaseVal(best, "num_param")
           /\ named("reg_weight") => gs.ftr.regweight = CaseVal(best, "reg_weight")
           /\ named("opt_maxiter") => gs.optimizer.maxiter = CaseVal(best, "opt_maxiter")

\* A return where the best case is not the last one run and every value of the last
\* case is another value than the best case has
C9_Witness ==
    /\ gs.pc = "done" /\ gs.cvgrid.onparam = 3
    /\ gs.bestiter + 1 < Len(gs.cvlist)
    /\ LessTol(gs.errs[gs.bestiter + 1], gs.errs[Len(gs.cvlist)])
    /\ \E i \in 1..3 :
          gs.cvlist[gs.bestiter + 1].params[i].val # gs.cvlist[Len(gs.cvlist)].params[i].val

----------------------------------------------------------------------------
(***************************************************************************)
(* Rank adaptation (ft_regress_run_rankadapt)                              *)
(*                                                                         *)
(* ra holds the regression handle ftr (ftp, adapt, kfold, regopts), the    *)
(* arguments maxrank, kickrank, opt_only_restricted and finalize, and the  *)
(* locals of ft_regress_run_rankadapt.  Rounding returns an FT whose ranks *)
(* are any ranks not above those of its argument; cross validation returns *)
(* any error and, running with adapt == 0, leaves the handle as it was.    *)
(* Ghost fields: entry_adapt and entry_ranks (ftr->adapt and the ranks of   *)
(* ftr->ftp on entry), ncv (cross-validation runs so far), nfit (calls of  *)
(* ft_regress_run made by the adaptation itself so far), paths (the branch *)
(* each nested ft_regress_run took).                                       *)
(***************************************************************************)
\* size_t maxiter = 10
MaxAdaptIter == 10

\* size_t kfold = 5
AdaptKfold == 5

\* The starting point ft_param_create_from_lin_ls gives a zeroed parameterization
LinLsGuess == 7

\* The value of the parameters new to a kicked parameterization (1e-4)
InitNew == 4

\* function_train_round: the FT it returns has the given ranks; its parameters
\* are named 201, 202, ... in flat order
FunctionTrainRound(dim, aopts, rranks) ==
    [ranks  |-> rranks,
     params |-> [i \in 0..(FtParamAlloc(dim, aopts, rranks).nparams - 1) |-> 201 + i]]

\* restrict_ranksp
RestrictRanksp(opts) == \E ii \in 0..(opts.dim-1) : opts.restrict_rank_opt[ii] > 0

\* c3_regression_run_aio: the optimizer's iterate (every entry the fitted value) is
\* written to all parameters, or to those at or above the thresholds
C3RegressionRunAio(ftp, ropts, fitted) ==
    IF ~ RestrictRanksp(ropts)
    THEN FtParamUpdateParams(ftp, [i \in 0..(ftp.nparams-1) |-> fitted])
    ELSE LET nparams == FtParamGetNparamsRestrict(ftp, ropts.restrict_rank_opt)
         IN FtParamUpdateRestrictedRanks(ftp, [i \in 0..(nparams-1) |-> fitted],
                                         ropts.restrict_rank_opt)

\* The branch ft_regress_run takes
FtRegressRunPath(ftr) == IF ftr.adapt = 1 THEN "rankadapt" ELSE "regression"

\* ft_regress_run on the non-adaptive branch
FtRegressRun(ftr, fitted) ==
    LET ftp0 == IF \A i \in 0..(ftr.ftp.nparams-1) : ftr.ftp.params[i] = 0
                THEN FtParamUpdateParams(ftr.ftp, [i \in 0..(ftr.ftp.nparams-1) |-> LinLsGuess])
                ELSE ftr.ftp
    IN [ftr EXCEPT !.ftp = C3RegressionRunAio(ftp0, ftr.regopts, fitted)]

\* The kick loop with the threshold taken after the rank was raised
RECURSIVE KickLoopThresholdAfter(_, _, _, _, _)
KickLoopThresholdAfter(st, ftr_ranks, kickrank, maxrank, upto) ==
    IF upto = 0 THEN st
    ELSE LET prev == KickLoopThresholdAfter(st, ftr_ranks, kickrank, maxrank, upto - 1)
             ii == upto
             raised == IF prev.ranks[ii] + kickrank > maxrank THEN maxrank
                       ELSE prev.ranks[ii] + kickrank
         IN IF ftr_ranks[ii] = prev.ranks[ii]
            THEN [ranks |-> [prev.ranks EXCEPT ![ii] = raised],
                  restrict_rank_opt |-> [prev.restrict_rank_opt EXCEPT ![ii-1] = raised],
                  kicked |-> 1]
            ELSE prev

\* The kick loop, lines 2701-2710, over interior dimensions 1..upto
RECURSIVE KickLoop(_, _, _, _, _)
KickLoop(st, ftr_ranks, kickrank, maxrank, upto) ==
    IF upto = 0 THEN st
    ELSE LET prev == KickLoop(st, ftr_ranks, kickrank, maxrank, upto - 1)
             ii == upto
         IN IF ftr_ranks[ii] = prev.ranks[ii]
            THEN [ranks |-> [prev.ranks EXCEPT ![ii] =
                               IF @ + kickrank > maxrank THEN maxrank ELSE @ + kickrank],
                  restrict_rank_opt |-> [prev.restrict_rank_opt EXCEPT ![ii-1] = prev.ranks[ii]],
                  kicked |-> 1]
            ELSE prev

\* Lines 2712-2718
AllMax(ranks, dim, maxrank) ==
    IF \E ii \in 1..(dim-1) : ranks[ii] < maxrank THEN 0 ELSE 1

\* ftr->kfold = 3 in ft_regress_alloc
DefaultKfold == 3

\* The values ft_regress_set_kfold is called with go up to MaxKfold
MaxKfold == 4

\* ft_regress_set_kfold
FtRegressSetKfold(ftr, kfold) == [ftr EXCEPT !.kfold = kfold]

RaInit ==
    /\ fp = Idle /\ cvs = Idle /\ gs = Idle /\ os = Idle /\ ob = Idle /\ fm = Idle
    /\ \E dim \in 2..MaxDim, adapt \in {0, 1}, finalize \in {0, 1},
          opt_only_restricted \in {0, 1} :
       \E inner \in [1..(dim-1) -> 1..(MaxRank+1)], maxrank \in 1..(MaxRank+1),
          kickrank \in 1..MaxKick, kfold \in DefaultKfold..MaxKfold :
         ra = [pc |-> "call",
               ftr |-> FtRegressSetKfold(
                         [dim |-> dim,
                          ftp |-> FtParamAlloc(dim, MkAopts(dim, 0), MkRanks(dim, inner)),
                          adapt |-> adapt, kfold |-> DefaultKfold,
                          regopts |-> [dim |-> dim, restrict_rank_opt |-> Calloc(dim)]],
                         kfold),
               maxrank |-> maxrank, kickrank |-> kickrank,
               opt_only_restricted |-> opt_only_restricted, finalize |-> finalize,
               ranks |-> << >>, kfold |-> 0, err |-> 0, new_err |-> 0,
               ft |-> [ranks |-> << >>, params |-> << >>],
               ftround |-> [ranks |-> << >>, params |-> << >>],
               rounded_params |-> << >>,
               kicked |-> 1, allmax |-> 0, jj |-> 0,
               entry_adapt |-> adapt, entry_ranks |-> MkRanks(dim, inner),
               ncv |-> 0, nfit |-> 0, paths |-> {}]

\* Lines 2654-2659: adaptation is turned off, the cross validation is set up
RaEnter ==
    /\ ra.pc = "call"
    /\ ra' = [ra EXCEPT !.pc = "initcv", !.ftr.adapt = 0,
                        !.ranks = Calloc(ra.ftr.dim + 1), !.kfold = AdaptKfold]
    /\ UNCHANGED <<fp, cvs, gs, os, ob, fm>>

\* Line 2666: err = cross_validate_run(cv, ftr, optimizer)
RaInitialCv ==
    /\ ra.pc = "initcv"
    /\ \E err \in 1..MaxErr :
         ra' = [ra EXCEPT !.pc = "initfit", !.err = err, !.ncv = @ + 1,
                          !.paths = @ \cup {FtRegressRunPath(ra.ftr)}]
    /\ UNCHANGED <<fp, cvs, gs, os, ob, fm>>

\* Lines 2672-2679: the initial regression; ranks takes the ranks of its FT
RaInitialFit ==
    /\ ra.pc = "initfit"
    /\ \E fitted \in 1..MaxFit :
         LET ftr1 == FtRegressRun(ra.ftr, fitted)
         IN ra' = [ra EXCEPT !.pc = "loop", !.ftr = ftr1,
                             !.ft = FunctionTrainCopy(ftr1.ftp),
                             !.ranks = Memmove(ra.ranks, ftr1.ftp.ranks, ra.ftr.dim + 1),
                             !.kicked = 1, !.jj = 0, !.nfit = @ + 1,
                             !.paths = @ \cup {FtRegressRunPath(ra.ftr)}]
    /\ UNCHANGED <<fp, cvs, gs, os, ob, fm>>

\* Lines 2687-2720: round, kick, and leave the loop when nothing was kicked or all
\* interior ranks are at maxrank
RaRoundKick ==
    /\ ra.pc = "loop" /\ ra.jj < MaxAdaptIter
    /\ \E inner \in [1..(ra.ftr.dim-1) -> 1..(MaxRank+1)] :
         /\ \A ii \in 1..(ra.ftr.dim-1) : inner[ii] <= ra.ft.ranks[ii]
         /\ LET ftround == FunctionTrainRound(ra.ftr.dim, ra.ftr.ftp.approx_opts,
                                              MkRanks(ra.ftr.dim, inner))
                k == KickLoop([ranks |-> ra.ranks,
                               restrict_rank_opt |-> ra.ftr.regopts.restrict_rank_opt,
                               kicked |-> 0],
                              ftround.ranks, ra.kickrank, ra.maxrank, ra.ftr.dim - 1)
                allmax == AllMax(k.ranks, ra.ftr.dim, ra.maxrank)
            IN ra' = [ra EXCEPT
                        !.pc = IF k.kicked = 0 \/ allmax = 1 THEN "final" ELSE "warm",
                        !.ftround = ftround,
                        !.ranks = k.ranks,
                        !.ftr.regopts.restrict_rank_opt = k.restrict_rank_opt,
                        !.kicked = k.kicked, !.allmax = allmax]
    /\ UNCHANGED <<fp, cvs, gs, os, ob, fm>>

\* The for loop ends at jj == maxiter
RaLoopEnd ==
    /\ ra.pc = "loop" /\ ra.jj >= MaxAdaptIter
    /\ ra' = [ra EXCEPT !.pc = "final"]
    /\ UNCHANGED <<fp, cvs, gs, os, ob, fm>>

\* Lines 2721-2752: a fresh parameterization of the kicked ranks, warm-started from
\* the rounded FT when only the new functions are to be optimized.  The copy from
\* rounded_params reads past its end when more entries lie below the thresholds
\* than the rounded FT has.
RaWarmStart ==
    /\ ra.pc = "warm"
    /\ \E junk \in {0, Garbage} :
         LET rounded_params == ra.ftround.params
             ftr1 == [ra.ftr EXCEPT !.ftp = FtParamAlloc(ra.ftr.dim, ra.ftr.ftp.approx_opts,
                                                        ra.ranks)]
             rs == ra.ftr.regopts.restrict_rank_opt
             padded == [i \in 0..(ftr1.ftp.nparams - 1) |->
                          IF i \in DOMAIN rounded_params THEN rounded_params[i] ELSE junk]
             inside == FtParamUpdateInsideRestrictedRanks(ftr1.ftp, padded, rs)
             nnew_solve == FtParamGetNparamsRestrict(inside, rs)
             init_new == [ii \in 0..(nnew_solve-1) |-> InitNew]
         IN ra' = [ra EXCEPT
                     !.pc = "cv",
                     !.rounded_params = rounded_params,
                     !.ftr = IF ra.opt_only_restricted = 1
                             THEN [ftr1 EXCEPT !.ftp =
                                     FtParamUpdateRestrictedRanks(inside, init_new, rs)]
                             ELSE [ftr1 EXCEPT !.regopts.restrict_rank_opt = Calloc(ra.ftr.dim)]]
    /\ UNCHANGED <<fp, cvs, gs, os, ob, fm>>

\* Line 2755: new_err = cross_validate_run(cv, ftr, optimizer)
RaCv ==
    /\ ra.pc = "cv"
    /\ \E new_err \in 1..MaxErr :
         ra' = [ra EXCEPT !.pc = "decide", !.new_err = new_err, !.ncv = @ + 1,
                          !.paths = @ \cup {FtRegressRunPath(ra.ftr)}]
    /\ UNCHANGED <<fp, cvs, gs, os, ob, fm>>

\* The branch of a worse error without the two calls that restore the rounded FT
RaRollBackKeepsKicked ==
    /\ ra.pc = "decide" /\ ra.new_err > ra.err
    /\ ra' = [ra EXCEPT !.pc = "final", !.ft = FunctionTrainCopy(ra.ftr.ftp)]
    /\ UNCHANGED <<fp, cvs, gs, os, ob, fm>>

\* Lines 2761-2771: the error went up; back to the rounded FT and out of the loop
RaRollBack ==
    /\ ra.pc = "decide" /\ ra.new_err > ra.err
    /\ LET ftr1 == [ra.ftr EXCEPT !.ftp = FtParamAlloc(ra.ftr.dim, ra.ftr.ftp.approx_opts,
                                                       ra.ftround.ranks)]
           ftr2 == [ftr1 EXCEPT !.ftp = FtParamUpdateParams(ftr1.ftp, ra.rounded_params)]
       IN ra' = [ra EXCEPT !.pc = "final", !.ftr = ftr2, !.ft = FunctionTrainCopy(ftr2.ftp)]
    /\ UNCHANGED <<fp, cvs, gs, os, ob, fm>>

\* The kicked parameterization kept whatever its cross-validation error
RaAcceptAnyError ==
    /\ ra.pc = "decide"
    /\ \E fitted \in 1..MaxFit :
         LET ftr1 == FtRegressRun(ra.ftr, fitted)
         IN ra' = [ra EXCEPT !.pc = "loop", !.ftr = ftr1, !.ft = FunctionTrainCopy(ftr1.ftp),
                             !.err = ra.new_err, !.jj = @ + 1, !.nfit = @ + 1,
                             !.paths = @ \cup {FtRegressRunPath(ra.ftr)}]
    /\ UNCHANGED <<fp, cvs, gs, os, ob, fm>>

\* Lines 2770-2773: the kicked parameterization is kept and optimized
RaAccept ==
    /\ ra.pc = "decide" /\ ~ (ra.new_err > ra.err)
    /\ \E fitted \in 1..MaxFit :
         LET ftr1 == FtRegressRun(ra.ftr, fitted)
         IN ra' = [ra EXCEPT !.pc = "loop", !.ftr = ftr1, !.ft = FunctionTrainCopy(ftr1.ftp),
                             !.err = ra.new_err, !.jj = @ + 1, !.nfit = @ + 1,
                             !.paths = @ \cup {FtRegressRunPath(ra.ftr)}]
    /\ UNCHANGED <<fp, cvs, gs, os, ob, fm>>

\* The final regression run with the thresholds of the last kick still in place
RaFinishKeepsThresholds ==
    /\ ra.pc = "final"
    /\ \E fitted \in 1..MaxFit :
         /\ ra.finalize # 1 => fitted = 1
         /\ LET ftr1 == FtRegressRun(ra.ftr, fitted)
            IN IF ra.finalize = 1
               THEN ra' = [ra EXCEPT !.pc = "done", !.ftr = [ftr1 EXCEPT !.adapt = 1],
                                     !.ft = FunctionTrainCopy(ftr1.ftp), !.nfit = @ + 1,
                                     !.paths = @ \cup {FtRegressRunPath(ra.ftr)}]
               ELSE ra' = [ra EXCEPT !.pc = "done", !.ftr.adapt = 1]
    /\ UNCHANGED <<fp, cvs, gs, os, ob, fm>>

\* Lines 2783-2801: the final regression when finalize == 1; adaptation back on
RaFinish ==
    /\ ra.pc = "final"
    /\ \E fitted \in 1..MaxFit :
         /\ ra.finalize # 1 => fitted = 1
         /\ LET ftr0 == [ra.ftr EXCEPT !.regopts.restrict_rank_opt = Calloc(ra.ftr.dim)]
                ftr1 == FtRegressRun(ftr0, fitted)
            IN IF ra.finalize = 1
               THEN ra' = [ra EXCEPT !.pc = "done", !.ftr = [ftr1 EXCEPT !.adapt = 1],
                                     !.ft = FunctionTrainCopy(ftr1.ftp), !.nfit = @ + 1,
                                     !.paths = @ \cup {FtRegressRunPath(ra.ftr)}]
               ELSE ra' = [ra EXCEPT !.pc = "done", !.ftr.adapt = 1]
    /\ UNCHANGED <<fp, cvs, gs, os, ob, fm>>

RaNext ==
    \/ RaEnter
    \/ RaInitialCv
    \/ RaInitialFit
    \/ RaRoundKick
    \/ RaLoopEnd
    \/ RaWarmStart
    \/ RaCv
    \/ RaRollBack
    \/ RaAccept
    \/ RaFinish

SpecRa == RaInit /\ [][RaNext]_vars

\* C1 (as stated): on return every rank of the returned FT and of ftr->ftp is at
\* most maxrank, whatever the initial ranks, kickrank, maxrank and finalize are and
\* whatever rounding and cross validation returned.
C1_RanksWithinMaxrank ==
    ra.pc = "done" =>
        \A ii \in 0..ra.ftr.dim :
            /\ ra.ft.ranks[ii] <= ra.maxrank
            /\ ra.ftr.ftp.ranks[ii] <= ra.maxrank

----------------------------------------------------------------------------
(***************************************************************************)
(* The minimizer (c3opt_minimize) and the check its callers make           *)
(*                                                                         *)
(* The minimizer's own code is outside the sources at hand; this part      *)
(* follows its description (BFGS with a backtracking line search, the four *)
(* stopping conditions) and the code of its callers: the AIO and ALS       *)
(* drivers warn when res < -1, regress_als_run_core reports                *)
(* "nonconvergence" when info < 0, and the tests require res >= 0 after    *)
(* raising the iteration caps.  os.stop is the reason of the stop.         *)
(***************************************************************************)
\* The stops on a convergence tolerance: gradient norm, step norm, relative change
ToleranceStops == {"gtol", "absxtol", "relftol"}

\* The status of a stop at the outer iteration cap
MaxIterStatus == -1

\* The statuses of a line search that finds no sufficient-decrease step
LineSearchStatuses == {-3, -2}

\* The statuses of a stop on a tolerance
ConvergedStatuses == {0, 1, 2}

\* The status at the outer iteration cap reported as a success
StatusAtCapAsSuccess(iter) == 0

\* The status when the outer iteration cap is reached after iter iterations
StatusAtCap(iter) == MaxIterStatus

\* The test of the drivers with -1 taken for a failure as well
DriverWarnsAnyNegative(res) == res < 0

\* if (res < -1) fprintf(stderr, "Warning: optimizer exited with code %d\n", res)
DriverWarns(res) == res < -1

\* if (info < 0) fprintf(stderr, "Minimizing core ... resulted in nonconvergence ...")
AlsCoreReports(info) == info < 0

OptInit ==
    /\ fp = Idle /\ cvs = Idle /\ gs = Idle /\ ra = Idle /\ ob = Idle /\ fm = Idle
    /\ \E maxiter \in 1..MaxOptIter, ls_maxiter \in 1..MaxLsIter :
         os = [pc |-> "call", maxiter |-> maxiter, ls_maxiter |-> ls_maxiter,
               iter |-> 0, ls_iter |-> 0, nevals |-> 0,
               status |-> 0, stop |-> "none", warned |-> FALSE, reported |-> FALSE]

\* c3opt_minimize: the first evaluation of the objective and its gradient
OptMinimize ==
    /\ os.pc = "call"
    /\ os' = [os EXCEPT !.pc = "linesearch", !.iter = 0, !.ls_iter = 0, !.nevals = 1]
    /\ UNCHANGED <<fp, cvs, gs, ra, ob, fm>>

\* One trial step of the backtracking line search: accepted when it gives
\* sufficient decrease, shortened otherwise
OptLineSearchStep ==
    /\ os.pc = "linesearch" /\ os.ls_iter < os.ls_maxiter
    /\ \E sufficient \in BOOLEAN :
         os' = [os EXCEPT !.pc = IF sufficient THEN "update" ELSE "linesearch",
                          !.ls_iter = @ + 1, !.nevals = @ + 1]
    /\ UNCHANGED <<fp, cvs, gs, ra, ob, fm>>

\* The line search reached its cap without a sufficient-decrease step: a failure
OptLineSearchFail ==
    /\ os.pc = "linesearch" /\ os.ls_iter >= os.ls_maxiter
    /\ \E code \in LineSearchStatuses :
         os' = [os EXCEPT !.pc = "done", !.status = code, !.stop = "linesearch"]
    /\ UNCHANGED <<fp, cvs, gs, ra, ob, fm>>

\* The step is taken and the inverse Hessian updated; then the stopping conditions:
\* a tolerance was met, or the outer iteration cap is reached, or go on
OptUpdate ==
    /\ os.pc = "update"
    /\ \E met \in ToleranceStops \cup {"none"}, code \in ConvergedStatuses :
         LET iter == os.iter + 1
         IN IF met # "none"
            THEN os' = [os EXCEPT !.pc = "done", !.iter = iter, !.status = code, !.stop = met]
            ELSE /\ code = 0
                 /\ IF iter >= os.maxiter
                    THEN os' = [os EXCEPT !.pc = "done", !.iter = iter,
                                          !.status = StatusAtCap(iter), !.stop = "maxiter"]
                    ELSE os' = [os EXCEPT !.pc = "linesearch", !.iter = iter, !.ls_iter = 0]
    /\ UNCHANGED <<fp, cvs, gs, ra, ob, fm>>

\* The caller's check of the status: c3_regression_run_aio and c3_regression_run_als
\* warn, regress_als_run_core reports; all go on with the optimizer's iterate
OptCallerCheck ==
    /\ os.pc = "done"
    /\ os' = [os EXCEPT !.pc = "returned", !.warned = DriverWarns(os.status),
                        !.reported = AlsCoreReports(os.status)]
    /\ UNCHANGED <<fp, cvs, gs, ra, ob, fm>>

OptNext ==
    \/ OptMinimize
    \/ OptLineSearchStep
    \/ OptLineSearchFail
    \/ OptUpdate
    \/ OptCallerCheck

SpecOpt == OptInit /\ [][OptNext]_vars

----------------------------------------------------------------------------
(***************************************************************************)
(* The regression objectives and the memory manager                        *)
(*                                                                         *)
(* A double is an integer, or one of the two values NaN and Inf.  The      *)
(* least-squares sums are kept as twice the code's value (the factor 0.5   *)
(* is left out), which changes no test the code makes.  An evaluation      *)
(* returns a record: outcome is "return" (a value goes back to the         *)
(* optimizer), "exit" (exit(1)), "assert" (a failed assert) or "crash"     *)
(* (a write past a buffer that the run did not survive); acc lists the     *)
(* buffers of the memory manager the evaluation touched, in order.         *)
(***************************************************************************)
\* isnan(v)
NaN == 999999

\* isinf(v)
Inf == 888888

IsNan(v) == v = NaN

IsInf(v) == v = Inf

\* a - b in doubles, for a finite a
DSub(a, b) == IF IsNan(b) THEN NaN ELSE IF IsInf(b) THEN Inf ELSE a - b

\* a + b in doubles, for values that are not negative
DAdd(a, b) == IF IsNan(a) \/ IsNan(b) THEN NaN ELSE IF IsInf(a) \/ IsInf(b) THEN Inf ELSE a + b

\* resid * resid; overflow says that the square of a finite resid is out of range
DSq(resid, overflow) ==
    IF IsNan(resid) THEN NaN ELSE IF IsInf(resid) \/ overflow THEN Inf ELSE resid * resid

\* out /= (double) N
DDiv(out, N) == IF IsNan(out) \/ IsInf(out) THEN out ELSE out \div N

\* The evaluation of the FT at one data point.  A parameter that is not finite
\* gives an evaluation that is not finite; hz is the value the evaluation takes when
\* it leaves the range of finite doubles for another reason (0: it does not).
FtEvalAt(ftp, xrow, hz) ==
    IF \E i \in DOMAIN ftp.ft : IsNan(ftp.ft[i]) THEN NaN
    ELSE IF \E i \in DOMAIN ftp.ft : IsInf(ftp.ft[i]) THEN Inf
    ELSE IF hz # 0 THEN hz
    ELSE (SumTo(ftp.ft, ALen(ftp.ft)) + xrow) % 3

\* function_train_param_grad_eval and its variants: mem->evals->vals[ii] for ii < N;
\* the evaluation at the last point is the one that may leave the finite range
FtEvals(ftp, N, x, hz) ==
    [ii \in 0..(N-1) |-> FtEvalAt(ftp, x[ii], IF ii = N-1 THEN hz ELSE 0)]

\* regress_mem_manager_alloc
RegressMemManagerAlloc(d, n, structure) ==
    [dim |-> d, N |-> n, structure |-> structure, once_eval_structure |-> 0]

\* regress_mem_manager_enough
RegressMemManagerEnough(mem, N) == IF mem.N < N THEN 0 ELSE 1

\* The test without the flag
ComputesStructureAlways(mem) == mem.structure = "LINEAR_ST"

\* The test of regress_mem_manager_check_structure: the blocks are computed now
ComputesStructure(mem) == mem.structure = "LINEAR_ST" /\ mem.once_eval_structure = 0

\* regress_mem_manager_check_structure
RegressMemManagerCheckStructure(mem) ==
    IF ComputesStructure(mem) THEN [mem EXCEPT !.once_eval_structure = 1] ELSE mem

\* The buffers regress_mem_manager_check_structure touches
CheckStructureAcc(mem) ==
    IF ComputesStructure(mem) THEN <<"all_grads", "fparam_space">> ELSE << >>

RECURSIVE AioLsGradLoop(_, _, _, _)
\* ft_param_eval_objective_aio_ls, grad != NULL: the state after the first k rounds
\* of the loop over the data points (out, and whether exit(1) was called)
AioLsGradLoop(evals, y, k, ovf) ==
    LET Round(prev, ii, out) ==
            IF prev.exit THEN prev
            ELSE IF IsNan(evals[ii]) \/ IsInf(evals[ii]) THEN [out |-> prev.out, exit |-> TRUE]
            ELSE IF IsInf(out) THEN [out |-> out, exit |-> TRUE]
            ELSE [out |-> out, exit |-> FALSE]
        Next(prev, ii) ==
            Round(prev, ii,
                  DAdd(prev.out, DSq(DSub(y[ii], evals[ii]), ovf /\ ii + 1 = ALen(evals))))
    IN IF k = 0 THEN [out |-> 0, exit |-> FALSE]
       ELSE Next(AioLsGradLoop(evals, y, k-1, ovf), k-1)

RECURSIVE LsSum(_, _, _, _)
\* The loop 'out += 0.5 * resid * resid' without a test, over the first k points
LsSum(evals, y, k, ovf) ==
    IF k = 0 THEN 0
    ELSE DAdd(LsSum(evals, y, k-1, ovf),
              DSq(DSub(y[k-1], evals[k-1]), ovf /\ k = ALen(evals)))

\* The buffers of the manager a least-squares evaluation touches
LsAcc(mem, grad) ==
    IF ~grad THEN <<"running_evals_lr", "evals">>
    ELSE IF mem.structure = "LINEAR_ST"
         THEN <<"running_evals_lr", "running_evals_rl", "running_grad", "evals", "grad",
                "lin_structure_vals">>
         ELSE <<"running_evals_lr", "running_evals_rl", "running_grad", "evals", "grad",
                "grad_space", "fparam_space">>

\* ft_param_eval_objective_aio_ls; grad is TRUE when grad != NULL
FtParamEvalObjectiveAioLs(ftp, mem, N, x, y, grad, hz, ovf) ==
    LET Tested(exit, out) ==
            [exit |-> exit \/ IsNan(out) \/ IsInf(out), val |-> out, acc |-> LsAcc(mem, grad)]
        Loop(l) == Tested(l.exit, DDiv(l.out, N))
        Evals(evals) ==
            IF grad THEN Loop(AioLsGradLoop(evals, y, N, ovf))
            ELSE Tested(FALSE, DDiv(LsSum(evals, y, N, ovf), N))
    IN Evals(FtEvals(ftp, N, x, hz))

\* ft_param_eval_objective_als_ls: no test of the evaluations or of the sum
FtParamEvalObjectiveAlsLs(ftp, active_core, mem, N, x, y, grad, hz, ovf) ==
    [exit |-> FALSE, val |-> DDiv(LsSum(FtEvals(ftp, N, x, hz), y, N, ovf), N),
     acc |-> LsAcc(mem, grad)]

\* function_train_param_grad_sqnorm / qmarray_param_grad_sqnorm: the weighted sum of
\* squares of the parameters v
RegVal(v, weight) ==
    IF \E i \in DOMAIN v : IsNan(v[i]) THEN NaN
    ELSE IF \E i \in DOMAIN v : IsInf(v[i]) THEN Inf
    ELSE weight * SumTo([i \in DOMAIN v |-> v[i] * v[i]], ALen(v))

\* What becomes of an evaluation that went through the least-squares loops with
\* N data points and a manager of mem.N: beyond mem.N the loops run past
\* mem->evals, and the run either survives that or does not
PastBuffers(r, mem, N, survives) ==
    IF N > mem.N /\ ~survives THEN [r EXCEPT !.outcome = "crash"] ELSE r

\* ft_param_eval_objective_aio, mem != NULL.  ndebug: the build drops assert
FtParamEvalObjectiveAio(ftp, regopts, mem, N, x, y, grad, hz, ovf, ndebug, survives) ==
    LET check_mem == RegressMemManagerEnough(mem, N)
        Tested(ls, out) ==
            IF ls.exit THEN [outcome |-> "exit", val |-> ls.val, acc |-> ls.acc]
            ELSE IF IsNan(out) \/ IsInf(out) THEN [outcome |-> "exit", val |-> out, acc |-> ls.acc]
            ELSE [outcome |-> "return", val |-> out, acc |-> ls.acc]
        Objective(ls) ==
            Tested(ls, IF regopts.obj = "FTLS_SPARSEL2"
                       THEN DAdd(ls.val, RegVal(ftp.params, regopts.regularization_weight))
                       ELSE ls.val)
    IN IF check_mem = 0 /\ ~ndebug THEN [outcome |-> "assert", val |-> 0, acc |-> << >>]
       ELSE PastBuffers(Objective(FtParamEvalObjectiveAioLs(ftp, mem, N, x, y, grad, hz, ovf)),
                        mem, N, survives)

\* ft_param_eval_objective_aio, mem == NULL: the manager made for the call is a
\* LINEAR_ST one on which nothing was computed; the gradient loop then goes by
\* lin_structure_vals, pointers never set, and the call either survives that or
\* does not
FtParamEvalObjectiveAioNull(ftp, regopts, N, x, y, grad, hz, ovf, ndebug, survives) ==
    LET mem_here == RegressMemManagerAlloc(ftp.dim, N, "LINEAR_ST")
        Freed(r) ==
            [outcome |-> IF grad /\ ~survives THEN "crash" ELSE r.outcome,
             val |-> r.val, acc |-> r.acc, reset |-> << >>, ftp |-> ftp, used |-> mem_here]
    IN Freed(FtParamEvalObjectiveAio(ftp, regopts, mem_here, N, x, y, grad, hz, ovf, ndebug,
                                     TRUE))

\* ft_param_eval_objective_als
FtParamEvalObjectiveAls(ftp, regopts, mem, N, x, y, grad, hz, ovf, ndebug, survives) ==
    LET check_mem == RegressMemManagerEnough(mem, N)
        Core(lo) ==
            [i \in 0..(ftp.nparams_per_core[regopts.als_active_core] - 1) |-> ftp.ft[lo + i]]
        Objective(ls) ==
            [outcome |-> "return",
             val |-> IF regopts.obj = "FTLS_SPARSEL2"
                     THEN DAdd(ls.val,
                               RegVal(Core(SumTo(ftp.nparams_per_core, regopts.als_active_core)),
                                      regopts.regularization_weight))
                     ELSE ls.val,
             acc |-> ls.acc]
    IN IF check_mem = 0 /\ ~ndebug THEN [outcome |-> "assert", val |-> 0, acc |-> << >>]
       ELSE PastBuffers(Objective(FtParamEvalObjectiveAlsLs(ftp, regopts.als_active_core, mem,
                                                            N, x, y, grad, hz, ovf)),
                        mem, N, survives)

\* ft_param_update_core_params with the offset of the core left out
FtParamUpdateCoreParamsNoOffset(ftp, core, params) ==
    LET n == ftp.nparams_per_core[core]
        Put(a) == [i \in DOMAIN a |-> IF i < n THEN ReadAt(params, i) ELSE a[i]]
    IN [ftp EXCEPT !.ft = Put(ftp.ft), !.params = Put(ftp.params)]

\* ft_param_update_core_params: function_train_core_update_params on the core, and
\* the memmove into ftp->params at runparam
FtParamUpdateCoreParams(ftp, core, params) ==
    LET runparam == SumTo(ftp.nparams_per_core, core)
        n == ftp.nparams_per_core[core]
        Put(a) == [i \in DOMAIN a |->
                     IF runparam <= i /\ i < runparam + n THEN ReadAt(params, i - runparam)
                     ELSE a[i]]
    IN [ftp EXCEPT !.ft = Put(ftp.ft), !.params = Put(ftp.params)]

\* regress_mem_manager_reset_running
ResetRunningAcc == <<"running_evals_lr", "running_evals_rl", "running_grad">>

\* regress_opts_minimize_aio(nparam, param, grad, args): pp is the struct PP behind
\* args; in holds what the evaluation meets (hz, ovf, survives)
RegressOptsMinimizeAio(pp, nparam, param, grad, in) ==
    LET acc1 == CheckStructureAcc(pp.mem) \o ResetRunningAcc
        restrict_needed == RestrictRanksp(pp.opts)
        Direct(ls, mem1) ==
            PastBuffers([outcome |-> IF ls.exit THEN "exit" ELSE "return",
                         val |-> ls.val, acc |-> ls.acc], mem1, pp.N, in.survives)
        Tested(e) ==
            IF e.outcome = "return" /\ (IsNan(e.val) \/ IsInf(e.val))
            THEN [e EXCEPT !.outcome = "exit"] ELSE e
        Out(eval, ftp1, mem1) ==
            [outcome |-> eval.outcome, val |-> eval.val, acc |-> acc1 \o eval.acc,
             reset |-> ResetRunningAcc, ftp |-> ftp1, mem |-> mem1, used |-> mem1,
             null |-> FALSE]
        Eval(ftp1, mem1) ==
            Out(Tested(IF restrict_needed /\ grad
                       THEN Direct(FtParamEvalObjectiveAioLs(ftp1, mem1, pp.N, pp.x, pp.y, TRUE,
                                                             in.hz, in.ovf), mem1)
                       ELSE FtParamEvalObjectiveAio(ftp1, pp.opts, mem1, pp.N, pp.x, pp.y, grad,
                                                    in.hz, in.ovf, pp.ndebug, in.survives)),
                ftp1, mem1)
    IN IF \E ii \in 0..(nparam-1) : IsNan(param[ii]) \/ IsInf(param[ii])
       THEN [outcome |-> "exit", val |-> 0, acc |-> << >>, reset |-> << >>,
             ftp |-> pp.ftp, mem |-> pp.mem, used |-> pp.mem, null |-> FALSE]
       ELSE Eval(IF ~restrict_needed THEN FtParamUpdateParams(pp.ftp, param)
                 ELSE FtParamUpdateRestrictedRanks(pp.ftp, param, pp.opts.restrict_rank_opt),
                 RegressMemManagerCheckStructure(pp.mem))

\* regress_opts_minimize_als(nparam, params, grad, args)
RegressOptsMinimizeAls(pp, nparam, params, grad, in) ==
    LET acc1 == CheckStructureAcc(pp.mem) \o <<"running_grad">>
        Out(e, ftp1, mem1) ==
            [outcome |-> e.outcome, val |-> e.val, acc |-> acc1 \o e.acc,
             reset |-> <<"running_grad">>, ftp |-> ftp1, mem |-> mem1, used |-> mem1,
             null |-> FALSE]
        Eval(ftp1, mem1) ==
            Out(FtParamEvalObjectiveAls(ftp1, pp.opts, mem1, pp.N, pp.x, pp.y, grad,
                                        in.hz, in.ovf, pp.ndebug, in.survives), ftp1, mem1)
    IN Eval(FtParamUpdateCoreParams(pp.ftp, pp.opts.als_active_core, params),
            RegressMemManagerCheckStructure(pp.mem))

(***************************************************************************)
(* SpecObj: objective evaluations on one FTparam and one memory manager,   *)
(* asked for by a driver (c3_regression_run_aio, c3_regression_run_als,    *)
(* whose manager has room for the N points of the run) or by another       *)
(* caller of the objective with a struct PP of its own; for a driver, the  *)
(* return of c3opt_minimize and what the driver does with it.  What an     *)
(* evaluation can meet (parameters or evaluations that are not finite, a   *)
(* sum out of range) is gone through for the other callers.                *)
(* ob.pp is the struct PP, ob.last the last evaluation, ob.ncomputed the   *)
(* number of times the linear-structure blocks were computed, ob.check the *)
(* last return of c3opt_minimize as the driver handled it.                 *)
(***************************************************************************)
\* Number of data points of a run, and of room in a memory manager
MaxPts == 2

\* Objective evaluations in one scenario
MaxObjEvals == 2

\* Dimension of the FT in the scenarios of SpecObj
MaxObjDim == 2

\* Dimension of the FT in the runs of c3_regression_run_als
MaxAlsDim == 3

\* ropts->max_als_sweeps in the scenarios of SpecObj
MaxSweeps == 2

\* A sweep without the pass back
AlsSweepForwardOnly(dim) == [k \in 1..dim |-> k - 1]

\* The cores of one ALS sweep, in order: 0..dim-1, then dim-2 down to 1
AlsSweepOrder(dim) ==
    [k \in 1..(dim + (IF dim > 2 THEN dim - 2 ELSE 0)) |->
        IF k <= dim THEN k - 1 ELSE dim - 1 - (k - dim)]

\* The statuses c3opt_minimize returns
MinimizeStatuses == ConvergedStatuses \cup {MaxIterStatus} \cup LineSearchStatuses

\* Number of variables the optimizer works on (c3opt_set_nvars)
Nvars(pp) ==
    IF pp.opts.type = "ALS" THEN pp.ftp.nparams_per_core[pp.opts.als_active_core]
    ELSE IF RestrictRanksp(pp.opts)
         THEN FtParamGetNparamsRestrict(pp.ftp, pp.opts.restrict_rank_opt)
         ELSE pp.ftp.nparams

\* ropts->als_conv_tol in the scenarios of SpecObj
AlsConvTol == 1

\* A comparison that takes NaN for small
DLessOrNan(a, b) == IsNan(a) \/ IsNan(b) \/ a < b

\* a < b on doubles: false when either is NaN
DLess(a, b) == ~ IsNan(a) /\ ~ IsNan(b) /\ a < b

\* The quotients diff / no the driver meets at the end of a sweep
SweepRatios == {0, 1, 2, NaN, Inf}

\* Lines 2073-2075 and 2115-2117, as entries of ob.log: the running accumulators
\* reset, als_active_core set to ii, ft_param_prepare_als_core(ftp, ii, ...)
AlsSetUpCore(ii) == <<[ev |-> "reset_running", core |-> ii], [ev |-> "prepare", core |-> ii]>>

NoEval ==
    [outcome |-> "none", val |-> 0, acc |-> << >>, grad |-> FALSE, param |-> << >>,
     nonfinite |-> FALSE, pre |-> << >>, post |-> << >>, core |-> 0, N |-> 0, memN |-> 0,
     reset |-> << >>, linear |-> FALSE, once |-> 0, null |-> FALSE]

NoCheck ==
    [res |-> 0, warned |-> FALSE, guess |-> << >>, core |-> 0, n |-> 0, ftp |-> << >>]

\* The struct PP and the manager of a scenario, before its first step
ObjStart(type, obj, structure, ndebug, caller, dim, inner, N, memN, rs, core, max_als_sweeps) ==
    LET ftp0 == FtParamAlloc(dim, MkAopts(dim, 0), MkRanks(dim, inner))
        ftp  == FtParamUpdateParams(ftp0, [i \in 0..(ftp0.nparams-1) |-> 1])
    IN [pc |-> IF caller = "driver" /\ type = "ALS" THEN "enter" ELSE "opt",
        caller |-> caller,
        pp |-> [ftp |-> ftp,
                opts |-> [dim |-> dim, type |-> type, obj |-> obj,
                          regularization_weight |-> 1,
                          restrict_rank_opt |-> rs,
                          als_active_core |-> core,
                          max_als_sweeps |-> max_als_sweeps,
                          als_conv_tol |-> AlsConvTol],
                mem |-> RegressMemManagerAlloc(dim, memN, structure),
                N |-> N, x |-> [ii \in 0..(N-1) |-> ii],
                y |-> [ii \in 0..(N-1) |-> 1], ndebug |-> ndebug],
        nevals |-> 0, ncomputed |-> 0, last |-> NoEval,
        k |-> 1, sweep |-> 1, check |-> NoCheck,
        log |-> << >>, ratios |-> << >>,
        ft_final |-> [ranks |-> << >>, params |-> << >>]]

ObjInit ==
    /\ fp = Idle /\ cvs = Idle /\ gs = Idle /\ ra = Idle /\ os = Idle /\ fm = Idle
    /\ \E type \in {"AIO", "ALS"}, obj \in {"FTLS", "FTLS_SPARSEL2"},
          structure \in {"LINEAR_ST", "NONE_ST"}, ndebug \in BOOLEAN,
          caller \in {"driver", "direct"}, dim \in 1..MaxObjDim :
       \E inner \in [1..(dim-1) -> 1..MaxRank], N \in 1..MaxPts, memN \in 1..MaxPts,
          rs \in [0..(dim-1) -> 0..1], core \in 0..(dim-1) :
         /\ caller = "driver" => memN = N /\ core = 0
         /\ memN >= N => ~ndebug
         /\ type = "ALS" => rs = Calloc(dim)
         /\ type = "AIO" => core = 0
         /\ ob = ObjStart(type, obj, structure, ndebug, caller, dim, inner, N, memN, rs,
                          core, 1)

\* The evaluations the optimizer asks for: nparam entries v, the last of them
\* bad when bad is NaN or Inf
ParamVector(nparam, v, bad) ==
    [ii \in 0..(nparam-1) |-> IF bad # 0 /\ ii = nparam-1 THEN bad ELSE v]

\* The record of an evaluation r of objective (pp, param, grad) met with in
\* (memN is the room of the manager the evaluation works in)
EvalRecord(pp, r, param, grad, in) ==
    [outcome |-> r.outcome, val |-> r.val, acc |-> r.acc, grad |-> grad, param |-> param,
     nonfinite |-> \/ \E ii \in DOMAIN param : IsNan(param[ii]) \/ IsInf(param[ii])
                   \/ \E ii \in 0..(pp.N-1) :
                        FtEvals(r.ftp, pp.N, pp.x, in.hz)[ii] \in {NaN, Inf}
                   \/ IsNan(r.val) \/ IsInf(r.val),
     pre |-> pp.ftp, post |-> r.ftp, core |-> pp.opts.als_active_core,
     N |-> pp.N, memN |-> r.used.N, reset |-> r.reset,
     linear |-> \E i \in 1..Len(r.acc) : r.acc[i] = "lin_structure_vals",
     once |-> r.used.once_eval_structure, null |-> r.null]

\* The state after evaluation r
AfterEval(r, rec) ==
    [ob EXCEPT !.pc = IF r.outcome = "return" THEN "opt" ELSE "aborted",
               !.pp.ftp = r.ftp, !.pp.mem = r.mem,
               !.nevals = @ + 1,
               !.ncomputed = @ + (IF \E i \in 1..Len(r.acc) : r.acc[i] = "all_grads"
                                  THEN 1 ELSE 0),
               !.last = rec]

\* One call of regress_opts_minimize_aio by the optimizer
ObEvalAio ==
    /\ ob.pc = "opt" /\ ob.pp.opts.type = "AIO" /\ ob.nevals < MaxObjEvals
    /\ \E v \in 1..MaxFit, bad \in {0, NaN, Inf}, grad \in BOOLEAN,
          hz \in {0, NaN, Inf}, ovf \in BOOLEAN, survives \in BOOLEAN :
         /\ Nvars(ob.pp) = 0 => bad = 0
         /\ bad # 0 \/ ovf => hz = 0
         /\ ob.caller = "driver" => bad = 0 /\ hz = 0 /\ ~ovf
         /\ bad # 0 => ~ovf
         /\ ob.pp.N <= ob.pp.mem.N => survives
         /\ \E param \in {ParamVector(Nvars(ob.pp), v, bad)},
               in \in {[hz |-> hz, ovf |-> ovf, survives |-> survives]} :
              \E r \in {RegressOptsMinimizeAio(ob.pp, Nvars(ob.pp), param, grad, in)} :
                ob' = AfterEval(r, EvalRecord(ob.pp, r, param, grad, in))
    /\ UNCHANGED <<fp, cvs, gs, ra, os, fm>>

\* One call of ft_param_eval_objective_aio with mem == NULL by another caller
ObEvalAioNull ==
    /\ ob.pc = "opt" /\ ob.caller = "direct" /\ ob.pp.opts.type = "AIO"
    /\ ob.nevals < MaxObjEvals
    /\ \E grad \in BOOLEAN, hz \in {0, NaN, Inf}, survives \in BOOLEAN :
         /\ ~grad => survives
         /\ \E in \in {[hz |-> hz, ovf |-> FALSE, survives |-> survives]} :
              \E e \in {FtParamEvalObjectiveAioNull(ob.pp.ftp, ob.pp.opts, ob.pp.N, ob.pp.x,
                                                    ob.pp.y, grad, hz, FALSE, ob.pp.ndebug,
                                                    survives)} :
              \E r \in {[outcome |-> e.outcome, val |-> e.val, acc |-> e.acc,
                          reset |-> e.reset, ftp |-> e.ftp, mem |-> ob.pp.mem,
                          used |-> e.used, null |-> TRUE]} :
                ob' = AfterEval(r, EvalRecord(ob.pp, r, << >>, grad, in))
    /\ UNCHANGED <<fp, cvs, gs, ra, os, fm>>

\* One call of regress_opts_minimize_als by the optimizer
ObEvalAls ==
    /\ ob.pc = "opt" /\ ob.pp.opts.type = "ALS" /\ ob.nevals < MaxObjEvals
    /\ \E v \in 1..MaxFit, bad \in {0, NaN, Inf}, grad \in BOOLEAN,
          hz \in {0, NaN, Inf}, ovf \in BOOLEAN, survives \in BOOLEAN :
         /\ Nvars(ob.pp) = 0 => bad = 0
         /\ bad # 0 \/ ovf => hz = 0
         /\ ob.caller = "driver" => bad = 0 /\ hz = 0 /\ ~ovf
         /\ bad # 0 => ~ovf
         /\ ob.pp.N <= ob.pp.mem.N => survives
         /\ \E param \in {ParamVector(Nvars(ob.pp), v, bad)},
               in \in {[hz |-> hz, ovf |-> ovf, survives |-> survives]} :
              \E r \in {RegressOptsMinimizeAls(ob.pp, Nvars(ob.pp), param, grad, in)} :
                ob' = AfterEval(r, EvalRecord(ob.pp, r, param, grad, in))
    /\ UNCHANGED <<fp, cvs, gs, ra, os, fm>>

\* c3_regression_run_aio from the return of c3opt_minimize on: the warning, the
\* iterate written to the FTparam, the copy of the FT returned
ObAioFinish ==
    /\ ob.pc = "opt" /\ ob.caller = "driver" /\ ob.pp.opts.type = "AIO"
    /\ \E res \in MinimizeStatuses, fitted \in 1..MaxFit :
         LET ftp1 == C3RegressionRunAio(ob.pp.ftp, ob.pp.opts, fitted)
         IN ob' = [ob EXCEPT !.pc = "returned",
                             !.pp.ftp = ftp1,
                             !.check = [res |-> res, warned |-> DriverWarns(res),
                                        guess |-> [ii \in 0..(Nvars(ob.pp)-1) |-> fitted],
                                        core |-> 0, n |-> ob.check.n + 1, ftp |-> ftp1],
                             !.ft_final = FunctionTrainCopy(ftp1)]
    /\ UNCHANGED <<fp, cvs, gs, ra, os, fm>>

\* c3_regression_run_als up to the first c3opt_minimize: no sweep when
\* max_als_sweeps is 0, else the first core of the first sweep is set up
ObAlsStart ==
    /\ ob.pc = "enter"
    /\ ob' = IF ~ (1 <= ob.pp.opts.max_als_sweeps)
             THEN [ob EXCEPT !.pc = "returned", !.ft_final = FunctionTrainCopy(ob.pp.ftp)]
             ELSE [ob EXCEPT !.pc = "opt", !.sweep = 1, !.k = 1,
                             !.pp.opts.als_active_core = AlsSweepOrder(ob.pp.opts.dim)[1],
                             !.log = AlsSetUpCore(AlsSweepOrder(ob.pp.opts.dim)[1])]
    /\ UNCHANGED <<fp, cvs, gs, ra, os, fm>>

\* c3_regression_run_als from the return of c3opt_minimize for the active core on:
\* the warning, the iterate written to the core, then the next core of the sweep,
\* the next sweep, or the copy of the FT returned
ObAlsCoreFinish ==
    /\ ob.pc = "opt" /\ ob.caller = "driver" /\ ob.pp.opts.type = "ALS"
    /\ \E res \in MinimizeStatuses, fitted \in 1..MaxFit, ratio \in SweepRatios :
         LET order == AlsSweepOrder(ob.pp.opts.dim)
             ii    == ob.pp.opts.als_active_core
             guess == [i \in 0..(Nvars(ob.pp)-1) |-> fitted]
             ftp1  == FtParamUpdateCoreParams(ob.pp.ftp, ii, guess)
             chk   == [res |-> res, warned |-> DriverWarns(res), guess |-> guess,
                       core |-> ii, n |-> ob.check.n + 1, ftp |-> ftp1]
             last  == ob.k = Len(order)
             converged == DLess(ratio, ob.pp.opts.als_conv_tol)
             stop  == last /\ (converged \/ ob.sweep >= ob.pp.opts.max_als_sweeps)
             next  == IF last THEN order[1] ELSE order[ob.k + 1]
         IN /\ ~last => ratio = 0
            /\ ob' = [ob EXCEPT
                        !.pc = IF stop THEN "returned" ELSE "opt",
                        !.pp.ftp = ftp1,
                        !.pp.opts.als_active_core = IF stop THEN ii ELSE next,
                        !.k = IF stop THEN ob.k ELSE IF last THEN 1 ELSE ob.k + 1,
                        !.sweep = IF last /\ ~stop THEN ob.sweep + 1 ELSE ob.sweep,
                        !.check = chk,
                        !.log = Append(@, [ev |-> "minimize", core |-> ii])
                                \o (IF stop THEN << >> ELSE AlsSetUpCore(next)),
                        !.ratios = IF last THEN Append(@, ratio) ELSE @,
                        !.ft_final = IF stop THEN FunctionTrainCopy(ftp1) ELSE ob.ft_final]
    /\ UNCHANGED <<fp, cvs, gs, ra, os, fm>>

ObjNext ==
    \/ ObEvalAio
    \/ ObEvalAioNull
    \/ ObEvalAls
    \/ ObAlsStart
    \/ ObAioFinish
    \/ ObAlsCoreFinish

SpecObj == ObjInit /\ [][ObjNext]_vars

\* The runs of c3_regression_run_als alone, on FTs of up to MaxAlsDim dimensions
\* with up to MaxSweeps sweeps allowed
AlsInit ==
    /\ fp = Idle /\ cvs = Idle /\ gs = Idle /\ ra = Idle /\ os = Idle /\ fm = Idle
    /\ \E obj \in {"FTLS", "FTLS_SPARSEL2"}, structure \in {"LINEAR_ST", "NONE_ST"},
          dim \in 1..MaxAlsDim, max_als_sweeps \in 0..MaxSweeps :
         ob = ObjStart("ALS", obj, structure, FALSE, "driver", dim, [i \in 1..(dim-1) |-> 1],
                       1, 1, Calloc(dim), 0, max_als_sweeps)

\* An evaluation of the ALS objective with its gradient
AlsEval == ObEvalAls /\ ob'.last.grad

\* A return of c3opt_minimize with status 0
AlsCoreFinish == ObAlsCoreFinish /\ ob'.check.res = 0

AlsNext ==
    \/ AlsEval
    \/ ObAlsStart
    \/ AlsCoreFinish

SpecAls == AlsInit /\ [][AlsNext]_vars

\* The last evaluation was on one of the paths of regress_opts_minimize_aio
LastOnAio == ob.pc # "idle" /\ ob.pp.opts.type = "AIO" /\ ob.last.outcome # "none"

\* The last evaluation was on the path of regress_opts_minimize_als
LastOnAls == ob.pc # "idle" /\ ob.pp.opts.type = "ALS" /\ ob.last.outcome # "none"

\* C11: whenever an FT evaluation, the objective value or a requested parameter of
\* an objective evaluation is NaN or Inf, the process aborts and no value goes back
\* to the optimizer, on the AIO and on the ALS paths, with and without gradient,
\* with and without rank restriction.
C11_NonFiniteAborts ==
    (LastOnAio \/ LastOnAls) /\ ob.last.nonfinite => ob.last.outcome # "return"

\* The same on the paths of regress_opts_minimize_aio alone
AioNonFiniteAborts ==
    LastOnAio /\ ob.last.nonfinite => ob.last.outcome # "return"

\* An evaluation of the ALS objective met a value that is not finite and returned
AlsReturnsNonFinite ==
    LastOnAls /\ ob.last.nonfinite /\ ob.last.outcome = "return"

\* An aborted AIO evaluation on the rank-restricted gradient path, with an FT
\* evaluation that is not finite
AioRestrictedGradAborts ==
    /\ LastOnAio /\ RestrictRanksp(ob.pp.opts) /\ ob.last.grad
    /\ ob.last.nonfinite /\ ob.last.outcome = "exit"
    /\ \A ii \in DOMAIN ob.last.param : ~IsNan(ob.last.param[ii]) /\ ~IsInf(ob.last.param[ii])

\* C12: an objective evaluation asked for more data points than the memory manager
\* was allocated for (N > mem->N) aborts at that call, before any scratch buffer of
\* the manager is read or written, on the unrestricted and the rank-restricted
\* gradient path of regress_opts_minimize_aio and on the ALS objective.
C12_ShortMemoryAborts ==
    (LastOnAio \/ LastOnAls) /\ ob.last.N > ob.last.memN =>
        ob.last.outcome \in {"assert", "exit"} /\ ob.last.acc = << >>

\* What holds of the paths that go through ft_param_eval_objective_aio or
\* ft_param_eval_objective_als in a build that keeps assert: the call aborts before
\* the least-squares loops (the buffers of check_structure and of the reset of the
\* running evaluations were touched by then)
ShortMemoryAbortsWhereTested ==
    /\ LastOnAio \/ LastOnAls
    /\ ob.last.N > ob.last.memN /\ ~ob.pp.ndebug
    /\ ~(LastOnAio /\ RestrictRanksp(ob.pp.opts) /\ ob.last.grad)
    => /\ ob.last.outcome \in {"assert", "exit"}
       /\ \A i \in 1..Len(ob.last.acc) : ob.last.acc[i] # "evals"

\* The rank-restricted gradient path of regress_opts_minimize_aio ran the
\* least-squares loop over more points than the manager has room for, in a build
\* that keeps assert, and returned a value
RestrictedGradRunsShort ==
    /\ LastOnAio /\ RestrictRanksp(ob.pp.opts) /\ ob.last.grad
    /\ ob.last.N > ob.last.memN /\ ~ob.pp.ndebug
    /\ ob.last.outcome = "return"
    /\ \E i \in 1..Len(ob.last.acc) : ob.last.acc[i] = "evals"

\* C13: for one memory manager, over any sequence of objective evaluations, the
\* linear-structure blocks are computed at most once: once_eval_structure only goes
\* from 0 to 1, regress_mem_manager_check_structure computes nothing once it is 1,
\* and for a manager with NONE structure nothing is ever computed and the flag
\* stays 0.
C13_StructureOnce ==
    [][/\ ob'.pp.mem.once_eval_structure >= ob.pp.mem.once_eval_structure
       /\ ob.pp.mem.once_eval_structure = 1 => ob'.ncomputed = ob.ncomputed
       /\ ob'.ncomputed <= 1
       /\ ob.pp.mem.structure = "NONE_ST" =>
              ob'.ncomputed = 0 /\ ob'.pp.mem.once_eval_structure = 0]_vars

\* A second evaluation on a manager with linear structure that returned and did not
\* compute the blocks the first evaluation had computed
C13_Witness ==
    /\ (LastOnAio \/ LastOnAls) /\ ob.nevals >= 2
    /\ ob.pp.mem.structure = "LINEAR_ST" /\ ob.pp.mem.once_eval_structure = 1
    /\ ob.ncomputed = 1 /\ ob.last.outcome = "return"
    /\ \A i \in 1..Len(ob.last.acc) : ob.last.acc[i] # "all_grads"

\* C16: ft_param_update_core_params(ftp, core, v) overwrites exactly the slice
\* [sum of nparams_per_core[0..core-1], that offset + nparams_per_core[core]) of the
\* flat buffer with v and pushes the same values into that core of the FT; every
\* entry outside the slice and every other core is unchanged, for every core.
C16_CoreSliceOnly ==
    LastOnAls =>
        LET pre  == ob.last.pre
            post == ob.last.post
            core == ob.last.core
            before == Cardinality({i \in 0..(pre.nparams-1) :
                                     \E c \in 0..(core-1) :
                                        /\ SumTo(pre.nparams_per_core, c) <= i
                                        /\ i < SumTo(pre.nparams_per_core, c+1)})
            InSlice(i) == before <= i /\ i < before + pre.nparams_per_core[core]
        IN /\ core \in 0..(pre.dim-1)
           /\ post.ranks = pre.ranks /\ post.nparams_per_core = pre.nparams_per_core
           /\ post.nparams = pre.nparams
           /\ \A i \in 0..(pre.nparams-1) :
                IF InSlice(i)
                THEN post.params[i] = ob.last.param[i - before]
                     /\ post.ft[i] = ob.last.param[i - before]
                ELSE post.params[i] = pre.params[i] /\ post.ft[i] = pre.ft[i]

\* An update of a core that is not the first, with values other than the ones the
\* core had, on an FTparam with parameters in the cores before it
C16_Witness ==
    /\ LastOnAls /\ ob.last.core >= 1
    /\ SumTo(ob.last.pre.nparams_per_core, ob.last.core) >= 1
    /\ ob.last.pre.nparams_per_core[ob.last.core] >= 1
    /\ \A i \in DOMAIN ob.last.param : ob.last.param[i] \notin {NaN, Inf}
    /\ \E i \in 0..(ob.last.pre.nparams-1) : ob.last.post.params[i] # ob.last.pre.params[i]
    /\ \E i \in 0..(ob.last.pre.nparams-1) : ob.last.post.params[i] = ob.last.pre.params[i]

\* A driver has handled a return of c3opt_minimize
DriverHandledReturn == ob.pc # "idle" /\ ob.check.n >= 1

\* The iterate of the last return handled is in the FTparam: in the slice of the core
\* for the ALS driver, in every parameter for the AIO driver without rank restriction,
\* and in at least as many parameters as the optimizer had variables with it
IterateWritten ==
    LET ftp == ob.check.ftp
        n   == ALen(ob.check.guess)
        off == SumTo(ftp.nparams_per_core, ob.check.core)
    IN IF ob.pp.opts.type = "ALS"
       THEN \A i \in 0..(n-1) : ftp.params[off + i] = ob.check.guess[i]
                                /\ ftp.ft[off + i] = ob.check.guess[i]
       ELSE IF ~RestrictRanksp(ob.pp.opts) THEN ftp.params = ob.check.guess
       ELSE \A i \in 0..(n-1) :
               Cardinality({j \in 0..(ftp.nparams-1) : ftp.params[j] = ob.check.guess[i]}) >= n

\* The driver did not abort, wrote the iterate, and what it returns is the copy of
\* the FT with the iterate in it
DriverGoesOn ==
    /\ ob.pc \in {"opt", "returned"}
    /\ IterateWritten
    /\ ob.pc = "returned" => ob.ft_final = FunctionTrainCopy(ob.check.ftp)

\* C17 (as stated): for every negative status returned by c3opt_minimize, -1
\* included, the AIO driver and the ALS driver log a warning and do not abort: they
\* write the final iterate into the FTparam and return an FT.
C17_EveryNegativeWarned ==
    DriverHandledReturn /\ ob.check.res < 0 => ob.check.warned /\ DriverGoesOn

\* C17 (amended): the AIO driver and the ALS driver log a warning exactly when the
\* status is below -1, a status of -1 is accepted without a warning, and for no
\* status do they abort: they write the final iterate into the FTparam and go on to
\* return an FT.
C17_WarnsBelowMinusOne ==
    DriverHandledReturn =>
        /\ ob.check.warned <=> ob.check.res < -1
        /\ DriverGoesOn

\* The ALS driver returned an FT after a status of -1 for the last core of the sweep,
\* without a warning, on an FT with two cores
C17_Witness ==
    /\ DriverHandledReturn /\ ob.pp.opts.type = "ALS" /\ ob.pp.opts.dim = 2
    /\ ob.check.res = -1 /\ ~ob.check.warned /\ ob.check.core = 1
    /\ ob.pc = "returned" /\ ob.ft_final.params = ob.check.ftp.ft

\* The AIO driver returned an FT after a status below -1, with a warning
AioWarnedAndReturned ==
    /\ DriverHandledReturn /\ ob.pp.opts.type = "AIO"
    /\ ob.check.res < -1 /\ ob.check.warned /\ ob.pc = "returned"

\* C14: the cross validation inside rank adaptation uses the k-fold count configured
\* on the regression handle with ft_regress_set_kfold (default 3), for every value
\* set.
C14_CvUsesHandleKfold ==
    ra.pc \notin {"idle", "call"} /\ ra.ncv >= 1 => ra.kfold = ra.ftr.kfold

\* A cross validation of the adaptation ran with 5 folds on a handle whose k-fold
\* count was set to another value
CvIgnoresHandleKfold ==
    /\ ra.pc \notin {"idle", "call"} /\ ra.ncv >= 1
    /\ ra.ftr.kfold = MaxKfold /\ ra.kfold = AdaptKfold /\ ra.kfold # ra.ftr.kfold

\* A step of the adaptation loop from the top of an iteration to the test of line
\* 2721: ra holds the state before the kick, ra' the state after it
KickStep == ra.pc = "loop" /\ ra.jj < MaxAdaptIter /\ ra'.pc \in {"final", "warm"}

\* C18: in every adaptation iteration the loop stops without re-running regression
\* only if no dimension was kicked or every interior rank was already at maxrank
\* before this iteration's kick; whenever a kick raises at least one rank that was
\* below maxrank, regression and cross validation are re-run at the kicked ranks.
C18_StopsOnlyWithoutProgress ==
    [][KickStep =>
         /\ ra'.pc = "final" =>
               \/ ra'.kicked = 0
               \/ \A ii \in 1..(ra.ftr.dim-1) : ra.ranks[ii] >= ra.maxrank
         /\ (\E ii \in 1..(ra.ftr.dim-1) :
                ra.ranks[ii] < ra.maxrank /\ ra'.ranks[ii] > ra.ranks[ii])
            => ra'.pc = "warm"]_vars

\* What the test of line 2721 does: the loop stops exactly when no dimension was
\* kicked or every interior rank is at maxrank after the kick
StopsOnRanksAfterKick ==
    [][KickStep =>
         (ra'.pc = "final" <=>
             \/ ra'.kicked = 0
             \/ \A ii \in 1..(ra.ftr.dim-1) : ra'.ranks[ii] >= ra.maxrank)]_vars

\* The loop was left after a kick that raised a rank from below maxrank to maxrank:
\* the ranks of the handle's parameterization are below the kicked ranks, which were
\* never fitted
KickedRanksNeverFitted ==
    /\ ra.pc = "final" /\ ra.kicked = 1 /\ ra.allmax = 1
    /\ \E ii \in 1..(ra.ftr.dim-1) :
          ra.ftr.ftp.ranks[ii] < ra.ranks[ii] /\ ra.ranks[ii] = ra.maxrank

\* C19: if the cross-validation error after a kick is greater than the best error
\* so far, no further adaptation iteration runs and the handle is rolled back:
\* ftr->ftp has the ranks and the parameter values of the rounded pre-kick FT, and
\* with finalize off that FT is the one returned; if the error is not greater, the
\* kicked parameterization is kept, re-optimized, and its error becomes the new
\* best.
C19_RollBackOrAccept ==
    [][/\ (ra.pc = "decide" /\ ra'.pc # "decide") =>
            IF ra.new_err > ra.err
            THEN /\ ra'.pc = "final" /\ ra'.jj = ra.jj /\ ra'.err = ra.err
                 /\ ra'.ftr.ftp.ranks = ra.ftround.ranks
                 /\ ra'.ftr.ftp.params = ra.ftround.params
                 /\ ra'.ftr.ftp.ft = ra.ftround.params
                 /\ ra'.ft = [ranks |-> ra.ftround.ranks, params |-> ra.ftround.params]
                 /\ \A ii \in 0..ra.ftr.dim : ra.ftround.ranks[ii] <= ra.ft.ranks[ii]
            ELSE /\ ra'.pc = "loop" /\ ra'.jj = ra.jj + 1 /\ ra'.err = ra.new_err
                 /\ ra'.ftr.ftp.ranks = ra.ranks
                 /\ \E fitted \in 1..MaxFit : ra'.ftr = FtRegressRun(ra.ftr, fitted)
                 /\ ra'.ft = FunctionTrainCopy(ra'.ftr.ftp)
       /\ (ra.pc = "final" /\ ra'.pc # "final") =>
            /\ ra'.pc = "done"
            /\ ra.finalize # 1 => ra'.ft = ra.ft /\ ra'.ftr.ftp = ra.ftr.ftp]_vars

\* A return with finalize off after an accepted kick and a rejected one: the FT
\* returned and ftr->ftp are the rounded FT, with a rank below the rejected kick
C19_Witness ==
    /\ ra.pc = "done" /\ ra.finalize = 0 /\ ra.jj >= 1 /\ ra.new_err > ra.err
    /\ ra.ft = ra.ftround /\ ra.ftr.ftp.params = ra.ftround.params
    /\ ra.ftr.ftp.ranks = ra.ftround.ranks
    /\ \E ii \in 1..(ra.ftr.dim-1) : ra.ft.ranks[ii] < ra.ranks[ii]

\* C20: in each adaptation iteration an interior dimension ii (1 <= ii < dim) is
\* kicked if and only if its rounded rank equals the rank of the current
\* parameterization; a kicked rank becomes min(rank + kickrank, maxrank), its
\* restriction threshold restrict_rank_opt[ii-1] is set to the pre-kick rank, and
\* ranks and thresholds of dimensions that are not kicked are left unchanged;
\* boundary ranks 0 and dim stay 1.
C20_KickRule ==
    [][KickStep =>
         LET dim == ra.ftr.dim
             Kicked(ii) == ra'.ftround.ranks[ii] = ra.ranks[ii]
             Min(a, b) == IF a < b THEN a ELSE b
             rs  == ra.ftr.regopts.restrict_rank_opt
             rs1 == ra'.ftr.regopts.restrict_rank_opt
         IN /\ \A ii \in 1..(dim-1) :
                 IF Kicked(ii)
                 THEN /\ ra'.ranks[ii] = Min(ra.ranks[ii] + ra.kickrank, ra.maxrank)
                      /\ rs1[ii-1] = ra.ranks[ii]
                 ELSE /\ ra'.ranks[ii] = ra.ranks[ii]
                      /\ rs1[ii-1] = rs[ii-1]
            /\ rs1[dim-1] = rs[dim-1]
            /\ ra'.kicked = (IF \E ii \in 1..(dim-1) : Kicked(ii) THEN 1 ELSE 0)
            /\ ra.ranks[0] = 1 /\ ra.ranks[dim] = 1
            /\ ra'.ranks[0] = 1 /\ ra'.ranks[dim] = 1]_vars

\* After an accepted kick, an iteration on three dimensions that kicked one interior
\* dimension up to the cap and left the other, whose rounded rank is lower, alone
\* with the threshold it had
C20_Witness ==
    /\ ra.pc = "warm" /\ ra.ftr.dim = 3 /\ ra.jj >= 1 /\ ra.kicked = 1
    /\ \E ii, kk \in 1..2 :
          /\ ii # kk
          /\ ra.ftround.ranks[ii] < ra.ranks[ii]
          /\ ra.ftround.ranks[kk] < ra.ftr.regopts.restrict_rank_opt[kk-1] + ra.kickrank
          /\ ra.ranks[kk] = ra.maxrank
          /\ ra.ftr.regopts.restrict_rank_opt[kk-1] = ra.ftround.ranks[kk]
          /\ ra.ftr.regopts.restrict_rank_opt[kk-1] + ra.kickrank > ra.maxrank

----------------------------------------------------------------------------
(***************************************************************************)
(* The function monitor (function_monitor_eval) and its hash table         *)
(*                                                                         *)
(* fm holds the monitor: evals is the table (size, and one list of pairs   *)
(* per bucket, newest first; null when create_hashtable_cp returned NULL), *)
(* ser the text serialize_darray_to_text gives for each point and fvals    *)
(* the value of the wrapped function at each point.  A text is a sequence  *)
(* of character codes.  serialize_darray_to_text is outside the sources at *)
(* hand: any function from points to texts is gone through, the ones that  *)
(* give two points the same text included.  Ghost fields: ninvoked (calls  *)
(* of the wrapped function per point), ncalled (calls of                   *)
(* function_monitor_eval per point), last (the last call: its point, the   *)
(* value returned, whether it was answered from the table, and the number  *)
(* of earlier calls for the point).                                        *)
(***************************************************************************)
\* The input points are 1..MaxPoints
MaxPoints == 3

\* tsize of function_monitor_initnd goes from 0 to MaxTsize
MaxTsize == 2

\* Calls of function_monitor_eval in one run
MaxCalls == 4

\* Values of the wrapped function
MaxFval == 2

Points == 1..MaxPoints

\* The texts a point is serialized to
Keys == {<<1>>, <<2>>, <<1, 1>>}

\* serialize_double_to_text
SerializeDoubleToText(val) == <<val, 0>>

\* deserialize_double_from_text
DeserializeDoubleFromText(sval) == sval[1]

RECURSIVE HashLoop(_, _)
\* The loop of hashsimple over the first k characters: hashval = c + (hashval << 5)
\* - hashval, which stays within size_t for texts of this length
HashLoop(str, k) ==
    IF k = 0 THEN 0
    ELSE str[k] + (HashLoop(str, k-1) * 32) - HashLoop(str, k-1)

\* hashsimple
Hashsimple(size, str) == HashLoop(str, Len(str)) % size

\* cpair_create
CpairCreate(a, b) == [a |-> a, b |-> b]

\* pair_push: the copy of data becomes the head of the list
PairPush(l, data) == <<CpairCreate(data.a, data.b)>> \o l

\* pair_list_len
PairListLen(head) == Len(head)

\* create_hashtable_cp: NULL for a size below 1
CreateHashtableCp(size) ==
    IF size < 1 THEN [null |-> TRUE, size |-> 0, table |-> << >>]
    ELSE [null |-> FALSE, size |-> size, table |-> [ii \in 0..(size-1) |-> << >>]]

\* The walk of a list for key: the second element of the first pair stored under it
ListLookup(pl, key) ==
    IF \E k \in 1..Len(pl) : pl[k].a = key
    THEN [found |-> TRUE,
          b |-> pl[CHOOSE k \in 1..Len(pl) :
                      pl[k].a = key /\ \A j \in 1..(k-1) : pl[j].a # key].b]
    ELSE [found |-> FALSE, b |-> << >>]

\* lookup_key that walks the first bucket whatever the key is
LookupKeyFirstBucket(ht, key) == ListLookup(ht.table[0], key)

\* lookup_key
LookupKey(ht, key) == ListLookup(ht.table[Hashsimple(ht.size, key)], key)

\* add_cpair: rc is what it returns
AddCpair(ht, cp) ==
    IF LookupKey(ht, cp.a).found THEN [ht |-> ht, rc |-> 2]
    ELSE [ht |-> [ht EXCEPT !.table[Hashsimple(ht.size, cp.a)] = PairPush(@, cp)],
          rc |-> 0]

RECURSIVE NstoredLoop(_, _)
NstoredLoop(ht, k) ==
    IF k = 0 THEN 0 ELSE NstoredLoop(ht, k-1) + PairListLen(ht.table[k-1])

\* nstored_hashtable_cp
NstoredHashtableCp(ht) == NstoredLoop(ht, ht.size)

\* function_monitor_initnd
FunctionMonitorInitnd(fvals, ser, tsize) ==
    [fvals |-> fvals, ser |-> ser, evals |-> CreateHashtableCp(tsize)]

MonInit ==
    /\ fp = Idle /\ cvs = Idle /\ gs = Idle /\ ra = Idle /\ os = Idle /\ ob = Idle
    /\ \E fvals \in [Points -> 1..MaxFval], ser \in [Points -> Keys], tsize \in 0..MaxTsize :
         LET m == FunctionMonitorInitnd(fvals, ser, tsize)
         IN fm = [pc |-> "ready", fvals |-> m.fvals, ser |-> m.ser, evals |-> m.evals,
                  ninvoked |-> [p \in Points |-> 0], ncalled |-> [p \in Points |-> 0],
                  last |-> [x |-> 0, val |-> 0, hit |-> FALSE, earlier |-> 0]]

RECURSIVE SumCalls(_)
SumCalls(p) == IF p = 0 THEN 0 ELSE SumCalls(p-1) + fm.ncalled[p]

\* Calls of function_monitor_eval so far
TotalCalls == SumCalls(MaxPoints)

\* function_monitor_eval(x, fm).  With fm->evals NULL, lookup_key reads ht->size
\* through the null pointer and the run ends there.
FunctionMonitorEval ==
    /\ fm.pc = "ready"
    /\ \E x \in Points :
         /\ TotalCalls < MaxCalls
         /\ IF fm.evals.null
            THEN fm' = [fm EXCEPT !.pc = "crashed", !.ncalled[x] = @ + 1]
            ELSE \E ser \in {fm.ser[x]} :
                 \E sval \in {LookupKey(fm.evals, ser)} :
                   IF sval.found
                   THEN fm' = [fm EXCEPT
                                 !.ncalled[x] = @ + 1,
                                 !.last = [x |-> x, val |-> DeserializeDoubleFromText(sval.b),
                                           hit |-> TRUE, earlier |-> fm.ncalled[x]]]
                   ELSE \E val \in {fm.fvals[x]} :
                          fm' = [fm EXCEPT
                                   !.evals = AddCpair(fm.evals,
                                                      CpairCreate(ser, SerializeDoubleToText(val))).ht,
                                   !.ninvoked[x] = @ + 1,
                                   !.ncalled[x] = @ + 1,
                                   !.last = [x |-> x, val |-> val, hit |-> FALSE,
                                             earlier |-> fm.ncalled[x]]]
    /\ UNCHANGED <<fp, cvs, gs, ra, os, ob>>

MonNext == FunctionMonitorEval

SpecMon == MonInit /\ [][MonNext]_vars

\* The pairs of the table, each with its bucket and its place in the list
Entries(ht) ==
    {e \in (0..(ht.size-1)) \X (1..MaxCalls) : e[2] <= PairListLen(ht.table[e[1]])}

\* The points function_monitor_eval was called for
PointsCalled == {p \in Points : fm.ncalled[p] >= 1}

\* C15: over any sequence of function_monitor_eval calls on one function monitor,
\* the wrapped function is invoked at most once per distinct input point, every
\* later call for that point is answered from the table, the table never holds two
\* entries with the same key, and nstored_hashtable_cp equals the number of distinct
\* points evaluated.
C15_AtMostOnce ==
    fm.pc \in {"ready", "crashed"} =>
        /\ \A p \in Points : fm.ninvoked[p] <= 1
        /\ fm.last.x # 0 /\ fm.last.earlier >= 1 => fm.last.hit
        /\ fm.evals.null => \A p \in Points : fm.ninvoked[p] = 0
        /\ ~fm.evals.null =>
             LET ht == fm.evals
                 KeyAt(e) == ht.table[e[1]][e[2]].a
             IN /\ \A e1, e2 \in Entries(ht) : KeyAt(e1) = KeyAt(e2) => e1 = e2
                /\ \A e \in Entries(ht) : e[1] = Hashsimple(ht.size, KeyAt(e))
                /\ NstoredHashtableCp(ht) = Cardinality({p \in Points : fm.ninvoked[p] >= 1})
                /\ NstoredHashtableCp(ht) = Cardinality({fm.ser[p] : p \in PointsCalled})
                /\ (\A p, q \in Points : fm.ser[p] = fm.ser[q] => p = q) =>
                      NstoredHashtableCp(ht) = Cardinality(PointsCalled)

\* A table of two buckets with three points stored under three texts, two of them
\* in the same bucket, and a last call that was a later call for one of the points in
\* that bucket, answered from the table with the value of the wrapped function
C15_Witness ==
    /\ fm.pc = "ready" /\ ~fm.evals.null /\ fm.evals.size = 2
    /\ NstoredHashtableCp(fm.evals) = 3 /\ Cardinality(PointsCalled) = 3
    /\ \E ii \in 0..1 : Len(fm.evals.table[ii]) = 2
    /\ fm.last.hit /\ fm.last.earlier = 1 /\ fm.ninvoked[fm.last.x] = 1
    /\ Len(fm.evals.table[Hashsimple(2, fm.ser[fm.last.x])]) = 2
    /\ fm.last.val = fm.fvals[fm.last.x]

----------------------------------------------------------------------------
\* The handles of three dimensions entered through ft_regress_run with the default
\* k-fold count, kickrank 1 and restricted optimization
RaInitFair ==
    /\ RaInit
    /\ ra.ftr.dim = MaxDim /\ ra.ftr.adapt = 1 /\ ra.ftr.kfold = DefaultKfold
    /\ ra.kickrank = 1 /\ ra.opt_only_restricted = 1

\* The adaptation on those handles with every call of it returning: a step that
\* can be taken is taken
RaFairness ==
    /\ WF_vars(RaEnter) /\ WF_vars(RaInitialCv) /\ WF_vars(RaInitialFit)
    /\ WF_vars(RaRoundKick) /\ WF_vars(RaLoopEnd) /\ WF_vars(RaCv)
    /\ WF_vars(RaRollBack) /\ WF_vars(RaFinish)
    \* weak fairness of RaWarmStart and of RaAccept, their enabling conditions
    \* written out
    /\ (<>[](ra.pc = "warm") => []<><<RaWarmStart>>_vars)
    /\ (<>[](ra.pc = "decide" /\ ~ (ra.new_err > ra.err)) => []<><<RaAccept>>_vars)

SpecRaFair == RaInitFair /\ [][RaNext]_vars /\ RaFairness

----------------------------------------------------------------------------
\* The flat index, in the rounded FT, of the parameter ll of the function at
\* (core kk, row ii, column jj); -1 when the rounded FT has no such function
RoundedIndex(it) ==
    LET rnest == LoopNest(FtParamAlloc(ra.ftr.dim, ra.ftr.ftp.approx_opts, ra.ftround.ranks))
        at == {k \in 1..Len(rnest) : /\ rnest[k].kk = it.kk /\ rnest[k].ii = it.ii
                                     /\ rnest[k].jj = it.jj /\ rnest[k].ll = it.ll}
    IN IF at = {} THEN -1 ELSE (CHOOSE k \in at : TRUE) - 1

\* The function lies inside the ranks of the rounded FT
InsideRounded(it) ==
    it.ii < ra.ftround.ranks[it.kk] /\ it.jj < ra.ftround.ranks[it.kk + 1]

\* C22 (as stated): with opt_only_restricted == 1, after the warm start every
\* function of the new parameterization whose row and column lie inside the rounded
\* FT's ranks holds the rounded FT's parameters of the same (core, row, column)
\* function, in every core, and every other parameter is the initial value 1e-4.
C22_WarmStartMapsRounded ==
    (ra.pc = "cv" /\ ra.opt_only_restricted = 1) =>
        LET nest == LoopNest(ra.ftr.ftp)
        IN \A k \in 1..Len(nest) :
              LET want == IF InsideRounded(nest[k])
                          THEN ra.ftround.params[RoundedIndex(nest[k])]
                          ELSE InitNew
              IN ra.ftr.ftp.params[k-1] = want /\ ra.ftr.ftp.ft[k-1] = want

\* The same for the cores before the last one only, on the iterations whose kick
\* raised every interior rank (every threshold is the rank of the rounded FT)
WarmStartMapsRoundedBeforeLast ==
    ( /\ ra.pc = "cv" /\ ra.opt_only_restricted = 1
      /\ \A ii \in 1..(ra.ftr.dim-1) :
            ra.ftr.regopts.restrict_rank_opt[ii-1] = ra.ftround.ranks[ii] ) =>
        LET nest == LoopNest(ra.ftr.ftp)
        IN \A k \in 1..Len(nest) :
              nest[k].kk < ra.ftr.dim - 1 =>
                 ra.ftr.ftp.params[k-1] = IF InsideRounded(nest[k])
                                          THEN ra.ftround.params[RoundedIndex(nest[k])]
                                          ELSE InitNew

\* The last core after a warm start: every parameter is the initial value, the
\* rounded FT's last core is in none of them
LastCoreAllNew ==
    (ra.pc = "cv" /\ ra.opt_only_restricted = 1) =>
        LET nest == LoopNest(ra.ftr.ftp)
        IN \A k \in 1..Len(nest) :
              nest[k].kk = ra.ftr.dim - 1 => ra.ftr.ftp.params[k-1] = InitNew

----------------------------------------------------------------------------
\* A run of c3_regression_run_aio with a positive threshold
RestrictedAioRun ==
    ob.pc # "idle" /\ ob.caller = "driver" /\ ob.pp.opts.type = "AIO" /\ RestrictRanksp(ob.pp.opts)

\* The flat indices of the parameters of the functions with both indices below the
\* thresholds
BelowThresholds(ftp, rank_start) ==
    LET nest == LoopNest(ftp)
    IN {k - 1 : k \in {j \in 1..Len(nest) : ~ AtOrAbove(nest[j], rank_start)}}

\* C23: with a positive threshold, c3_regression_run_aio changes only parameters of
\* functions whose row index is at or above the threshold to their left or whose
\* column index is at or above the threshold to their right: every step of the run
\* (each objective evaluation, and the write of the final iterate) leaves the
\* parameters of the functions below both thresholds as they were, in ftp->params
\* and in the FT, and so does the FT returned.
C23_BelowThresholdsFrozen ==
    [][RestrictedAioRun =>
          \A i \in BelowThresholds(ob.pp.ftp, ob.pp.opts.restrict_rank_opt) :
             /\ ob'.pp.ftp.params[i] = ob.pp.ftp.params[i]
             /\ ob'.pp.ftp.ft[i] = ob.pp.ftp.ft[i]
             /\ ob'.pc = "returned" => ob'.ft_final.params[i] = ob.pp.ftp.ft[i]]_vars

\* A restricted run returned after an evaluation; it left a parameter below the
\* thresholds alone and gave another one a new value
C23_Witness ==
    /\ RestrictedAioRun /\ ob.pc = "returned" /\ ob.nevals > 0
    /\ BelowThresholds(ob.pp.ftp, ob.pp.opts.restrict_rank_opt) # {}
    /\ \E i \in 0..(ob.pp.ftp.nparams - 1) :
          /\ i \notin BelowThresholds(ob.pp.ftp, ob.pp.opts.restrict_rank_opt)
          /\ ob.pp.ftp.params[i] # 1 /\ ob.ft_final.params[i] # 1
    /\ \E i \in 0..(ob.pp.ftp.nparams - 1) : ob.last.post.params[i] # ob.last.pre.params[i]

----------------------------------------------------------------------------
\* The core optimized n-th in a run on dim cores: 0, 1, ..., dim-1, dim-2, ..., 1
\* in every sweep
NthCore(dim, n) ==
    LET per == IF dim > 2 THEN 2 * dim - 2 ELSE dim
        k   == ((n - 1) % per) + 1
    IN IF k <= dim THEN k - 1 ELSE 2 * dim - 1 - k

\* C24: in every ALS sweep the cores are optimized in the order 0, 1, ..., dim-1,
\* dim-2, ..., 1, with als_active_core set to the core being optimized; before each
\* core's optimization the running accumulators are reset and
\* ft_param_prepare_als_core is called once for that core, and until that core's
\* c3opt_minimize has returned it is not called again and the left and right
\* accumulators are not reset (an objective evaluation resets the gradient
\* accumulator of the active core only).
C24_SweepOrderPreparedOnce ==
    /\ [](ob.pc \in {"opt", "returned"} =>
            /\ \A i \in 1..Len(ob.log) :
                  ob.log[i] = [ev   |-> <<"reset_running", "prepare", "minimize">>[((i-1) % 3) + 1],
                               core |-> NthCore(ob.pp.opts.dim, (i + 2) \div 3)]
            /\ ob.pc = "opt" =>
                  /\ Len(ob.log) % 3 = 2
                  /\ ob.pp.opts.als_active_core = ob.log[Len(ob.log)].core
            /\ ob.pc = "returned" => Len(ob.log) % 3 = 0)
    /\ [][ob.pc = "opt" /\ ob'.nevals = ob.nevals + 1 =>
             /\ ob'.log = ob.log
             /\ ob'.last.core = ob.log[Len(ob.log)].core
             /\ ob'.last.reset = <<"running_grad">>]_vars

\* A run on three cores returned after two sweeps, with objective evaluations on
\* the way
C24_Witness ==
    /\ ob.pc = "returned" /\ ob.pp.opts.dim = 3 /\ ob.nevals > 0
    /\ Len(ob.log) = 24 /\ ob.log[12].core = 1 /\ ob.log[24].core = 1

----------------------------------------------------------------------------
\* The runs of SpecAls on the least-squares objective with a LINEAR manager
AlsInitFair ==
    /\ AlsInit
    /\ ob.pp.opts.obj = "FTLS" /\ ob.pp.mem.structure = "LINEAR_ST"

\* Those runs with every call c3_regression_run_als makes returning
SpecAlsFair ==
    AlsInitFair /\ [][AlsNext]_vars /\ WF_vars(ObAlsStart) /\ WF_vars(AlsCoreFinish)

\* The relative change r of a sweep is a number below als_conv_tol
BelowTol(r) == r \notin {NaN, Inf} /\ r < ob.pp.opts.als_conv_tol

\* Sweeps completed: one quotient is taken at the end of each
SweepsDone == Len(ob.ratios)

\* C25: c3_regression_run_als terminates after at most max_als_sweeps sweeps (none
\* when the cap is 0), and stops after the first sweep whose relative change is
\* below als_conv_tol; a sweep whose ratio is not below the tolerance, a ratio that
\* is not finite included, never stops the loop before the cap.
C25_SweepsBoundedStopOnTol ==
    /\ <>(ob.pc = "returned")
    /\ [](/\ SweepsDone <= ob.pp.opts.max_als_sweeps
          /\ \A i \in 1..(SweepsDone - 1) : ~ BelowTol(ob.ratios[i])
          /\ ob.pc = "opt" =>
                /\ SweepsDone < ob.pp.opts.max_als_sweeps
                /\ \A i \in 1..SweepsDone : ~ BelowTol(ob.ratios[i])
          /\ ob.pc = "returned" =>
                /\ Len(ob.log) = 3 * Len(AlsSweepOrder(ob.pp.opts.dim)) * SweepsDone
                /\ \/ SweepsDone = ob.pp.opts.max_als_sweeps
                   \/ BelowTol(ob.ratios[SweepsDone])
                /\ ob.pp.opts.max_als_sweeps = 0 => ob.log = << >>)

\* A run allowed two sweeps returned after the first, whose relative change was
\* below the tolerance
C25_Witness ==
    /\ ob.pc = "returned" /\ ob.pp.opts.max_als_sweeps = 2
    /\ SweepsDone = 1 /\ BelowTol(ob.ratios[1])

\* A run went into its second sweep after a first one whose ratio was NaN
NanSweepGoesOn ==
    ob.pc = "opt" /\ SweepsDone = 1 /\ ob.ratios[1] = NaN

\* A run with the cap at 0 returned
ZeroSweepsReturned ==
    ob.pc = "returned" /\ ob.pp.opts.max_als_sweeps = 0 /\ ob.log = << >>

----------------------------------------------------------------------------
\* C26: when finalize is 1, after the adaptation loop has ended (by no kick, all
\* ranks at maxrank, a rollback, or the iteration cap) every restriction threshold
\* is reset to 0, regression is run exactly once more on the handle's current
\* parameterization, and the FT returned is the result of that run; when finalize
\* is 0 no regression is run after the loop.
C26_FinalizeRunsOnce ==
    [][ra.pc = "final" =>
          IF ra.finalize = 1
          THEN /\ \A ii \in 0..(ra.ftr.dim-1) : ra'.ftr.regopts.restrict_rank_opt[ii] = 0
               /\ ra'.nfit = ra.nfit + 1
               /\ ra'.ftr.ftp.ranks = ra.ftr.ftp.ranks
               /\ \E fitted \in 1..MaxFit :
                     \A i \in 0..(ra'.ftr.ftp.nparams-1) : ra'.ftr.ftp.params[i] = fitted
               /\ ra'.ft = [ranks |-> ra'.ftr.ftp.ranks, params |-> ra'.ftr.ftp.ft]
               /\ ra'.ftr.ftp.ft = ra'.ftr.ftp.params
          ELSE /\ ra'.nfit = ra.nfit
               /\ ra'.ft = ra.ft /\ ra'.ftr.ftp = ra.ftr.ftp
               /\ ra'.ftr.regopts = ra.ftr.regopts]_vars

\* A return with finalize == 1 after a rollback that left thresholds of the kick
\* behind: the final run was the third regression and the thresholds are 0
C26_Witness ==
    /\ ra.pc = "done" /\ ra.finalize = 1 /\ ra.opt_only_restricted = 1
    /\ ra.new_err > ra.err /\ ra.jj = 1 /\ ra.nfit = 3
    /\ \A ii \in 0..(ra.ftr.dim-1) : ra.ftr.regopts.restrict_rank_opt[ii] = 0
    /\ \E i \in 0..(ra.ftr.ftp.nparams-1) : ra.ft.params[i] # ra.rounded_params[i]

\* Returns with finalize == 0 after the loop ended by the cap, by a rollback, with
\* nothing kicked, and with every rank at maxrank
ReturnsWithoutFinalRun ==
    /\ ra.pc = "done" /\ ra.finalize = 0 /\ ra.nfit = ra.jj + 1

----------------------------------------------------------------------------
\* C27 (as stated): whenever an objective evaluation takes the LINEAR gradient path
\* (a LINEAR_ST manager and a gradient asked for), the manager's linear structure
\* has been computed before (once_eval_structure == 1); for the AIO and the ALS
\* callbacks and for ft_param_eval_objective_aio called with mem == NULL.
C27_LinearPathStructured ==
    (LastOnAio \/ LastOnAls) /\ ob.last.linear => ob.last.once = 1

\* The same for the two callbacks of the optimizer alone
CallbackLinearPathStructured ==
    (LastOnAio \/ LastOnAls) /\ ob.last.linear /\ ~ob.last.null => ob.last.once = 1

\* A callback took the LINEAR gradient path on the structure computed by an
\* earlier evaluation
CallbackOnEarlierStructure ==
    /\ LastOnAio \/ LastOnAls
    /\ ob.last.linear /\ ~ob.last.null /\ ob.last.once = 1 /\ ob.nevals = 2
    /\ \A i \in 1..Len(ob.last.acc) : ob.last.acc[i] # "all_grads"

\* ft_param_eval_objective_aio with mem == NULL took the LINEAR gradient path and
\* returned a value
NullManagerLinearPath ==
    LastOnAio /\ ob.last.null /\ ob.last.linear /\ ob.last.once = 0
    /\ ob.last.outcome = "return"

----------------------------------------------------------------------------
\* C28 (as stated): ft_regress_run_rankadapt returns with ftr->adapt equal to its
\* value on entry, whether entered through ft_regress_run with adapt == 1 or called
\* directly with adapt == 0, and while it runs every nested ft_regress_run, those
\* of cross_validate_run included, takes the non-adaptive path.
C28_AdaptAsOnEntry ==
    /\ ra.pc = "done" => ra.ftr.adapt = ra.entry_adapt
    /\ ra.pc # "idle" => ra.paths \subseteq {"regression"}

\* What holds: the nested runs are non-adaptive, and adapt is 1 on return
NestedRunsNotAdaptive ==
    /\ ra.pc = "done" => ra.ftr.adapt = 1
    /\ ra.pc \notin {"idle", "call", "done"} => ra.ftr.adapt = 0
    /\ ra.pc # "idle" => ra.paths \subseteq {"regression"}

\* A direct call with adapt == 0 returned after cross validations and regressions
DirectCallReturned ==
    /\ ra.pc = "done" /\ ra.entry_adapt = 0 /\ ra.ftr.adapt = 1
    /\ ra.ncv > 1 /\ ra.nfit > 1 /\ ra.paths = {"regression"}

----------------------------------------------------------------------------
\* The value regress_opts_minimize_aio gives for the parameters and data of the
\* last evaluation when asked with a gradient (grad TRUE) or without
AioValueAgain(grad) ==
    RegressOptsMinimizeAio([ob.pp EXCEPT !.ftp = ob.last.pre], ALen(ob.last.param),
                           ob.last.param, grad,
                           [hz |-> 0, ovf |-> FALSE, survives |-> TRUE])

\* The last evaluation was a call of regress_opts_minimize_aio that returned
AioCallbackReturned ==
    LastOnAio /\ ~ob.last.null /\ ob.last.outcome = "return"

\* C29 (as stated): for the same parameters, data and options
\* regress_opts_minimize_aio returns the same objective value whether or not a
\* gradient is asked for, for FTLS and FTLS_SPARSEL2, with and without rank
\* restriction.
C29_SameValueWithAndWithoutGrad ==
    AioCallbackReturned /\ AioValueAgain(~ob.last.grad).outcome = "return" =>
        /\ AioValueAgain(ob.last.grad).val = ob.last.val
        /\ AioValueAgain(~ob.last.grad).val = ob.last.val

\* The same away from the regularized objective under rank restriction
SameValueUnlessRestrictedSparse ==
    /\ AioCallbackReturned /\ AioValueAgain(~ob.last.grad).outcome = "return"
    /\ ~ (ob.pp.opts.obj = "FTLS_SPARSEL2" /\ RestrictRanksp(ob.pp.opts))
    => /\ AioValueAgain(ob.last.grad).val = ob.last.val
       /\ AioValueAgain(~ob.last.grad).val = ob.last.val

\* A regularized, rank-restricted evaluation with gradient returned a value that
\* the evaluation without gradient does not return
RestrictedSparseValuesDiffer ==
    /\ AioCallbackReturned /\ ob.last.grad
    /\ ob.pp.opts.obj = "FTLS_SPARSEL2" /\ RestrictRanksp(ob.pp.opts)
    /\ AioValueAgain(FALSE).outcome = "return"
    /\ AioValueAgain(FALSE).val # ob.last.val
    /\ AioValueAgain(TRUE).val = ob.last.val

----------------------------------------------------------------------------
\* C30 (as stated): cross_validate_grid_opt never uses an empty case list; for every
\* number of grid parameters (0 to 4) and every number of values per parameter
\* (including 0) either the call aborts when the cases are set up or the list holds
\* at least one case when the best case is looked up and applied again.
C30_CaseListNotEmpty ==
    /\ gs.pc = "search" => gs.cvlist # << >>
    /\ gs.pc # "nullderef"

\* The list is empty exactly when the grid has no parameter, more than three, or a
\* parameter without values; otherwise it holds one case per combination and the
\* call returns
CaseListEmptyOnlyWithoutCombinations ==
    gs.pc \in {"search", "done", "nullderef"} =>
        LET cv == gs.cvgrid
            none == \/ cv.onparam \notin {1, 2, 3}
                    \/ \E p \in 1..cv.onparam : cv.nvals[p] = 0
        IN /\ (gs.cvlist = << >>) <=> none
           /\ ~ none => Len(gs.cvlist) = ProdTo(cv.nvals, 1, cv.onparam)
           /\ gs.pc = "done" => ~ none
           /\ gs.pc = "nullderef" => none

\* The best case is looked up in an empty list of a grid without parameters
EmptyListNoParam == gs.pc = "nullderef" /\ gs.cvgrid.onparam = 0

\* ... of a grid with four parameters, each with values
EmptyListFourParams ==
    /\ gs.pc = "nullderef" /\ gs.cvgrid.onparam = NRPARAM
    /\ \A p \in 1..NRPARAM : gs.cvgrid.nvals[p] > 0

\* ... of a grid with one to three parameters, one of them without values
EmptyListNoValues ==
    /\ gs.pc = "nullderef" /\ gs.cvgrid.onparam \in {1, 2, 3}
    /\ \E p \in 1..gs.cvgrid.onparam : gs.cvgrid.nvals[p] = 0

=============================================================================
